---------------------------- MODULE Spec2Model ----------------------------
(***************************************************************************)
(* Model of the trusted-boundary layer of draw.io Desktop: the path and    *)
(* content validators (utils/security.js), the rate limiter, the           *)
(* persistent file store (services/FileService.js) and the renderer        *)
(* request dispatcher (ipc/handlers.js).                                   *)
(*                                                                         *)
(* Representation.  A JavaScript string that carries file content is a     *)
(* sequence of UTF-16 code units (naturals); a Buffer is a sequence of     *)
(* bytes; a path is a sequence of one-character strings, so that           *)
(* startsWith, dirname, basename and join work on characters as in the     *)
(* code.  The build modelled is the POSIX one (isWin = false).             *)
(***************************************************************************)
EXTENDS Integers, Sequences, FiniteSets, TLC

(***************************************************************************)
(* Generic sequence helpers.                                               *)
(***************************************************************************)
\* an argument the caller left out
Undefined == "undefined"

\* s[i] of a sequence of numbers with JavaScript's 0-based index; -1, which
\* is no code unit and no byte, when out of range
At(s, i) == IF i >= 0 /\ i + 1 <= Len(s) THEN s[i + 1] ELSE 0 - 1

\* String.prototype.substring(0, n) / Buffer.subarray(0, n)
Prefix(s, n) == SubSeq(s, 1, IF Len(s) < n THEN Len(s) ELSE n)

\* String.prototype.startsWith
StartsWith(s, p) == Len(p) <= Len(s) /\ SubSeq(s, 1, Len(p)) = p

\* a sequence of n copies of x
Repeat(x, n) == [i \in 1..n |-> x]

RECURSIVE Flatten(_)
Flatten(ss) == IF ss = <<>> THEN <<>> ELSE Head(ss) \o Flatten(Tail(ss))

(***************************************************************************)
(* Node's path module, POSIX flavour, on character sequences.              *)
(***************************************************************************)
RECURSIVE SplitPath(_, _, _)
SplitPath(p, i, cur) ==
    IF i > Len(p) THEN <<cur>>
    ELSE IF p[i] = "/" THEN <<cur>> \o SplitPath(p, i + 1, <<>>)
    ELSE SplitPath(p, i + 1, Append(cur, p[i]))

RECURSIVE JoinSegs(_)
JoinSegs(segs) ==
    IF segs = <<>> THEN <<>>
    ELSE IF Len(segs) = 1 THEN segs[1]
    ELSE segs[1] \o <<"/">> \o JoinSegs(Tail(segs))

\* normalizeString of Node's path.posix: drops "" and ".", resolves "..".
RECURSIVE NormSegs(_, _, _)
NormSegs(segs, acc, isAbs) ==
    IF segs = <<>> THEN acc
    ELSE LET s == Head(segs) IN
         IF s = <<>> \/ s = <<".">> THEN NormSegs(Tail(segs), acc, isAbs)
         ELSE IF s = <<".", ".">>
              THEN IF acc # <<>> /\ acc[Len(acc)] # <<".", ".">>
                   THEN NormSegs(Tail(segs), SubSeq(acc, 1, Len(acc) - 1), isAbs)
                   ELSE IF isAbs THEN NormSegs(Tail(segs), acc, isAbs)
                        ELSE NormSegs(Tail(segs), Append(acc, s), isAbs)
         ELSE NormSegs(Tail(segs), Append(acc, s), isAbs)

\* path.normalize
PathNormalize(p) ==
    IF p = <<>> THEN <<".">>
    ELSE LET isAbs    == p[1] = "/"
             trailing == p[Len(p)] = "/"
             body     == JoinSegs(NormSegs(SplitPath(p, 1, <<>>), <<>>, isAbs))
         IN  IF body = <<>>
             THEN IF isAbs THEN <<"/">>
                  ELSE IF trailing THEN <<".", "/">> ELSE <<".">>
             ELSE (IF isAbs THEN <<"/">> ELSE <<>>) \o body
                  \o (IF trailing THEN <<"/">> ELSE <<>>)

\* process.cwd() of the host process
Cwd == <<"/", "w">>

\* path.resolve of one argument: absolute, normalized, no trailing slash.
PathResolve(p) ==
    LET q == IF p # <<>> /\ p[1] = "/" THEN p ELSE Cwd \o <<"/">> \o p
        n == PathNormalize(q)
    IN  IF Len(n) > 1 /\ n[Len(n)] = "/" THEN SubSeq(n, 1, Len(n) - 1) ELSE n

\* path.join of two arguments
PathJoin(a, b) ==
    IF a = <<>> THEN PathNormalize(b)
    ELSE IF b = <<>> THEN PathNormalize(a)
    ELSE PathNormalize(a \o <<"/">> \o b)

RECURSIVE StripTrailingSlashes(_)
StripTrailingSlashes(p) ==
    IF Len(p) > 1 /\ p[Len(p)] = "/"
    THEN StripTrailingSlashes(SubSeq(p, 1, Len(p) - 1))
    ELSE p

\* index of the last "/" of p, 0 when there is none
RECURSIVE LastSlash(_, _)
LastSlash(p, i) ==
    IF i = 0 THEN 0 ELSE IF p[i] = "/" THEN i ELSE LastSlash(p, i - 1)

\* path.dirname
PathDirname(p) ==
    IF p = <<>> THEN <<".">>
    ELSE LET q == StripTrailingSlashes(p)
             k == LastSlash(q, Len(q))
         IN  IF q = <<"/">> THEN <<"/">>
             ELSE IF k = 0 THEN <<".">>
             ELSE IF k = 1 THEN <<"/">>
             ELSE StripTrailingSlashes(SubSeq(q, 1, k - 1))

\* path.basename
PathBasename(p) ==
    LET q == StripTrailingSlashes(p)
        k == LastSlash(q, Len(q))
    IN  IF q = <<"/">> THEN <<>> ELSE SubSeq(q, k + 1, Len(q))

(***************************************************************************)
(* Buffer encodings of Node, by what they do: 'utf8', 'latin1', 'base64'.  *)
(* A string is a sequence of UTF-16 code units, a Buffer one of bytes.     *)
(***************************************************************************)
Encodings == {"utf8", "latin1", "base64"}

IsHighSurrogate(u) == u >= 55296 /\ u <= 56319
IsLowSurrogate(u)  == u >= 56320 /\ u <= 57343
IsCont(b)          == b >= 128 /\ b <= 191

\* U+FFFD, what an encoder or decoder writes for what it cannot represent
ReplacementBytes == <<239, 191, 189>>
ReplacementChar  == <<65533>>

\* Buffer.from(s, 'utf8')
RECURSIVE Utf8Encode(_)
Utf8Encode(s) ==
    IF s = <<>> THEN <<>>
    ELSE LET u == s[1] IN
         IF u < 128 THEN <<u>> \o Utf8Encode(Tail(s))
         ELSE IF u < 2048
              THEN <<192 + (u \div 64), 128 + (u % 64)>> \o Utf8Encode(Tail(s))
         ELSE IF IsHighSurrogate(u) /\ Len(s) >= 2 /\ IsLowSurrogate(s[2])
              THEN LET cp == 65536 + (u - 55296) * 1024 + (s[2] - 56320) IN
                   <<240 + (cp \div 262144), 128 + ((cp \div 4096) % 64),
                     128 + ((cp \div 64) % 64), 128 + (cp % 64)>>
                   \o Utf8Encode(SubSeq(s, 3, Len(s)))
         ELSE IF IsHighSurrogate(u) \/ IsLowSurrogate(u)
              THEN ReplacementBytes \o Utf8Encode(Tail(s))
         ELSE <<224 + (u \div 4096), 128 + ((u \div 64) % 64), 128 + (u % 64)>>
              \o Utf8Encode(Tail(s))

\* buf.toString('utf8'): every byte that starts no well-formed sequence
\* decodes to U+FFFD.
RECURSIVE Utf8Decode(_)
Utf8Decode(b) ==
    IF b = <<>> THEN <<>>
    ELSE LET b1 == b[1]
             n  == Len(b)
             c3 == (b1 - 224) * 4096 + (b[2] - 128) * 64 + (b[3] - 128)
             c4 == (b1 - 240) * 262144 + (b[2] - 128) * 4096
                   + (b[3] - 128) * 64 + (b[4] - 128)
         IN
         IF b1 < 128 THEN <<b1>> \o Utf8Decode(Tail(b))
         ELSE IF b1 >= 194 /\ b1 <= 223 /\ n >= 2 /\ IsCont(b[2])
              THEN <<(b1 - 192) * 64 + (b[2] - 128)>> \o Utf8Decode(SubSeq(b, 3, n))
         ELSE IF b1 >= 224 /\ b1 <= 239 /\ n >= 3 /\ IsCont(b[2]) /\ IsCont(b[3])
                 /\ c3 >= 2048 /\ ~IsHighSurrogate(c3) /\ ~IsLowSurrogate(c3)
              THEN <<c3>> \o Utf8Decode(SubSeq(b, 4, n))
         ELSE IF b1 >= 240 /\ b1 <= 244 /\ n >= 4 /\ IsCont(b[2]) /\ IsCont(b[3])
                 /\ IsCont(b[4]) /\ c4 >= 65536 /\ c4 <= 1114111
              THEN <<55296 + ((c4 - 65536) \div 1024), 56320 + ((c4 - 65536) % 1024)>>
                   \o Utf8Decode(SubSeq(b, 5, n))
         ELSE ReplacementChar \o Utf8Decode(Tail(b))

\* new TextDecoder('utf-8').decode(bytes): as above, a leading BOM dropped
TextDecode(b) ==
    IF Len(b) >= 3 /\ SubSeq(b, 1, 3) = <<239, 187, 191>>
    THEN Utf8Decode(SubSeq(b, 4, Len(b)))
    ELSE Utf8Decode(b)

\* the 6-bit value of a base64 digit ('-' and '_' are the URL-safe 62, 63),
\* -1 for a character outside the alphabet
B64Val(u) ==
    IF u >= 65 /\ u <= 90 THEN u - 65
    ELSE IF u >= 97 /\ u <= 122 THEN u - 71
    ELSE IF u >= 48 /\ u <= 57 THEN u + 4
    ELSE IF u = 43 \/ u = 45 THEN 62
    ELSE IF u = 47 \/ u = 95 THEN 63
    ELSE 0 - 1

B64Digit(v) ==
    IF v < 26 THEN v + 65
    ELSE IF v < 52 THEN v + 71
    ELSE IF v < 62 THEN v - 4
    ELSE IF v = 62 THEN 43 ELSE 47

\* the digits of s up to the first '=', characters outside the alphabet skipped
RECURSIVE B64Digits(_)
B64Digits(s) ==
    IF s = <<>> \/ s[1] = 61 THEN <<>>
    ELSE IF B64Val(s[1]) < 0 THEN B64Digits(Tail(s))
    ELSE <<B64Val(s[1])>> \o B64Digits(Tail(s))

RECURSIVE B64Bytes(_)
B64Bytes(d) ==
    IF Len(d) < 2 THEN <<>>
    ELSE IF Len(d) = 2 THEN <<d[1] * 4 + (d[2] \div 16)>>
    ELSE IF Len(d) = 3
         THEN <<d[1] * 4 + (d[2] \div 16), (d[2] % 16) * 16 + (d[3] \div 4)>>
    ELSE <<d[1] * 4 + (d[2] \div 16), (d[2] % 16) * 16 + (d[3] \div 4),
           (d[3] % 4) * 64 + d[4]>> \o B64Bytes(SubSeq(d, 5, Len(d)))

\* Buffer.from(s, 'base64')
Base64Decode(s) == B64Bytes(B64Digits(s))

\* buf.toString('base64')
RECURSIVE Base64Encode(_)
Base64Encode(b) ==
    IF b = <<>> THEN <<>>
    ELSE IF Len(b) = 1
         THEN <<B64Digit(b[1] \div 4), B64Digit((b[1] % 4) * 16), 61, 61>>
    ELSE IF Len(b) = 2
         THEN <<B64Digit(b[1] \div 4), B64Digit((b[1] % 4) * 16 + (b[2] \div 16)),
                B64Digit((b[2] % 16) * 4), 61>>
    ELSE <<B64Digit(b[1] \div 4), B64Digit((b[1] % 4) * 16 + (b[2] \div 16)),
           B64Digit((b[2] % 16) * 4 + (b[3] \div 64)), B64Digit(b[3] % 64)>>
         \o Base64Encode(SubSeq(b, 4, Len(b)))

\* Buffer.from(s, enc); an absent encoding is 'utf8'
Encode(s, enc) ==
    IF enc = "base64" THEN Base64Decode(s)
    ELSE IF enc = "latin1" THEN [i \in 1..Len(s) |-> s[i] % 256]
    ELSE Utf8Encode(s)

\* buf.toString(enc)
Decode(b, enc) ==
    IF enc = "base64" THEN Base64Encode(b)
    ELSE IF enc = "latin1" THEN b
    ELSE Utf8Decode(b)

(***************************************************************************)
(* Values that cross the file API: null, a string, a Buffer.               *)
(***************************************************************************)
Null == [kind |-> "null"]
Str(s) == [kind |-> "string", v |-> s]
Buf(b) == [kind |-> "buffer", v |-> b]

(***************************************************************************)
(* The filesystem.  fs maps the resolved absolute path of every existing   *)
(* file to its bytes, size and modification time.  size is Len(data) for   *)
(* every file the program writes; a file that was already on disk may be   *)
(* larger than the bytes the model keeps of it (its leading bytes).        *)
(***************************************************************************)
FileRec(bytes, t) == [data |-> bytes, size |-> Len(bytes), mtime |-> t]

\* the key under which the operating system finds path p
FsKey(p) == PathResolve(p)

\* fs.existsSync
ExistsSync(f, p) == FsKey(p) \in DOMAIN f

\* fs with file p created or replaced / removed
FsPut(f, p, rec) ==
    [q \in DOMAIN f \cup {FsKey(p)} |-> IF q = FsKey(p) THEN rec ELSE f[q]]
FsDel(f, p) == [q \in DOMAIN f \ {FsKey(p)} |-> f[q]]

(***************************************************************************)
(* utils/security.js                                                       *)
(***************************************************************************)
MAX_FILE_SIZE == 104857600

\* the directory of utils/security.js in an unpacked install
SecurityModuleDir == <<"/", "a", "/", "s", "/", "u">>

\* SECURITY_CONFIG.SUSPICIOUS_PATTERNS, lower case: /\.\./, /<script/i,
\* /javascript:/i, /data:text\/html/i
SUSPICIOUS_PATTERNS ==
    { <<46, 46>>,
      <<60, 115, 99, 114, 105, 112, 116>>,
      <<106, 97, 118, 97, 115, 99, 114, 105, 112, 116, 58>>,
      <<100, 97, 116, 97, 58, 116, 101, 120, 116, 47, 104, 116, 109, 108>> }

ToLower(u) == IF u >= 65 /\ u <= 90 THEN u + 32 ELSE u

\* pattern.test(content) for a case-insensitive literal pattern
PatternTest(pat, content) ==
    \E i \in 1..(Len(content) - Len(pat) + 1) :
        \A k \in 1..Len(pat) : ToLower(content[i + k - 1]) = pat[k]

getAppBaseDir == PathJoin(SecurityModuleDir, <<"/", ".", ".", "/", ".", ".", "/">>)

\* the characters of [\x00-\x1f\x7f] that paths of the model may carry
ControlChars == {"\t", "\n", "\r"}

normalizePath(inputPath) ==
    PathNormalize(SelectSeq(inputPath, LAMBDA ch : ch \notin ControlChars))

isOutsideAppDir(filePath) ==
    ~StartsWith(PathResolve(normalizePath(filePath)), PathResolve(getAppBaseDir))

\* statSync after existsSync cannot fail in one turn: the catch is dead here
validateFileSize(f, filePath) ==
    IF ~ExistsSync(f, filePath) THEN TRUE
    ELSE ~(f[FsKey(filePath)].size > MAX_FILE_SIZE)

\* called with string content and no encoding by every caller
validateFileContent(content) ==
    /\ ~(Len(Utf8Encode(content)) > MAX_FILE_SIZE)
    /\ \A pat \in SUSPICIOUS_PATTERNS : ~PatternTest(pat, content)

(***************************************************************************)
(* services/FileService.js: constants and pure functions                   *)
(***************************************************************************)
DRAFT_PREFEX     == <<".", "$">>
OLD_DRAFT_PREFEX == <<"~", "$">>
DRAFT_EXT        == <<".", "d", "t", "m", "p">>
BKP_PREFEX       == <<".", "$">>
OLD_BKP_PREFEX   == <<"~", "$">>
BKP_EXT          == <<".", "b", "k", "p">>

\* the sniffer's two views of the head of body: c, its characters, and cc,
\* its bytes
HeadChars(body, enc) ==
    IF body.kind = "string"
    THEN IF enc = "base64" THEN Utf8Decode(Base64Decode(Prefix(body.v, 22)))
         ELSE Prefix(body.v, 16)
    ELSE TextDecode(Prefix(body.v, 16))

HeadBytes(body, enc) ==
    IF body.kind = "string"
    THEN IF enc = "base64" THEN Base64Decode(Prefix(body.v, 22))
         ELSE Utf8Encode(Prefix(body.v, 16))
    ELSE Prefix(body.v, 16)

\* s carries pat at 0-based offset i
HasAt(s, i, pat) == \A k \in 1..Len(pat) : At(s, i + k - 1) = pat[k]

checkFileContent(body, enc) ==
    IF body = Null THEN FALSE
    ELSE LET c  == HeadChars(body, enc)
             cc == HeadBytes(body, enc)
         IN
         \* XML/HTML: <!, <html, <HTML, <body, <BODY, <?xml, <svg, <mx, <img, <iframe
         \/ /\ At(c, 0) = 60
            /\ \/ At(c, 1) = 33
               \/ HasAt(c, 1, <<104, 116, 109, 108>>)
               \/ HasAt(c, 1, <<72, 84, 77, 76>>)
               \/ HasAt(c, 1, <<98, 111, 100, 121>>)
               \/ HasAt(c, 1, <<66, 79, 68, 89>>)
               \/ HasAt(c, 1, <<63, 120, 109, 108>>)
               \/ HasAt(c, 1, <<115, 118, 103>>)
               \/ HasAt(c, 1, <<109, 120>>)
               \/ HasAt(c, 1, <<105, 109, 103>>)
               \/ HasAt(c, 1, <<105, 102, 114, 97, 109, 101>>)
         \* UTF-8 BOM, then <?x
         \/ HasAt(cc, 0, <<239, 187, 191>>) /\ HasAt(c, 3, <<60, 63, 120>>)
         \* UTF-16 BE BOM
         \/ /\ HasAt(cc, 0, <<254, 255>>)
            /\ At(cc, 2) = 0 /\ At(c, 3) = 60 /\ At(cc, 4) = 0 /\ At(c, 5) = 63
            /\ At(cc, 6) = 0 /\ At(c, 7) = 120
         \* UTF-16 LE BOM
         \/ /\ HasAt(cc, 0, <<255, 254>>)
            /\ At(c, 2) = 60 /\ At(cc, 3) = 0 /\ At(c, 4) = 63 /\ At(cc, 5) = 0
         \* UTF-32 BE and LE BOM
         \/ HasAt(cc, 0, <<0, 0, 254, 255>>)
         \/ HasAt(cc, 0, <<255, 254, 0, 0>>)
         \* PDF
         \/ HasAt(cc, 0, <<37, 80, 68, 70>>)
         \* PNG, raw or as the UTF-8 bytes of the string "\x89PN"
         \/ HasAt(cc, 0, <<137, 80, 78, 71>>)
         \/ HasAt(cc, 0, <<194, 137, 80, 78>>)
         \* JPEG
         \/ HasAt(cc, 0, <<255, 216, 255>>) /\ At(cc, 3) \in {224, 238, 225}
         \* WebP: RIFF....WEBP
         \/ HasAt(cc, 0, <<82, 73, 70, 70>>) /\ HasAt(cc, 8, <<87, 69, 66, 80>>)
         \* ZIP-based formats
         \/ HasAt(cc, 0, <<80, 75, 3>>) /\ At(cc, 3) \in {4, 6}
         \* JSON
         \/ At(c, 0) \in {123, 91}

\* a conflict check that only sees a target newer than the caller's token
isConflictNewer(origStat, stat) ==
    stat # Null /\ origStat # Null /\ stat.mtimeMs > origStat.mtimeMs

isConflict(origStat, stat) ==
    stat # Null /\ origStat # Null /\ stat.mtimeMs # origStat.mtimeMs

(***************************************************************************)
(* Bounds and inputs of the model.                                         *)
(***************************************************************************)
MaxTime  == 1      \* the clock runs from 0 to MaxTime milliseconds
MaxExt   == 1      \* writes by other programs to the files of the model
MaxReq   == 2      \* 'rendererReq' messages the dispatcher receives

\* sample contents: "<mx>", "{}", "hi", "{..}", "{" + a lone surrogate, and
\* "RIFFaaaaWEBP"
XmlData   == <<60, 109, 120, 62>>
JsonData  == <<123, 125>>
PlainData == <<104, 105>>
DotsData  == <<123, 46, 46, 125>>
LoneData  == <<123, 55296>>
WebpData  == <<82, 73, 70, 70, 97, 97, 97, 97, 87, 69, 66, 80>>
DataSamples == {XmlData, JsonData, PlainData, DotsData, LoneData, WebpData}

\* /h/f exists, with a legacy backup and a first draft beside it, /h/n does
\* not exist, /h/g exists and is over the size cap, /a/f lies in the
\* application directory
HomeFile == <<"/", "h", "/", "f">>
NewFile  == <<"/", "h", "/", "n">>
BigFile  == <<"/", "h", "/", "g">>
AppFile  == <<"/", "a", "/", "f">>
PathSamples == {HomeFile, NewFile, BigFile, AppFile}

\* the disk when the program starts
InitialDisk ==
    LET old == PathJoin(PathDirname(HomeFile),
                        OLD_BKP_PREFEX \o PathBasename(HomeFile) \o BKP_EXT)
        draft == PathJoin(PathDirname(HomeFile),
                          DRAFT_PREFEX \o PathBasename(HomeFile) \o DRAFT_EXT)
    IN  (HomeFile :> FileRec(Utf8Encode(JsonData), 0))
        @@ (old :> FileRec(Utf8Encode(JsonData), 0))
        @@ (draft :> FileRec(Utf8Encode(JsonData), 0))
        @@ (BigFile :> [data |-> Utf8Encode(JsonData), size |-> MAX_FILE_SIZE + 1,
                        mtime |-> 0])
        @@ (AppFile :> FileRec(Utf8Encode(JsonData), 0))

(***************************************************************************)
(* State.                                                                  *)
(***************************************************************************)
VARIABLES
    now,      \* Date.now() and the clock of the filesystem, in milliseconds
    fs,       \* the filesystem
    call,     \* per caller: the file-store call in progress or last finished
    prev,     \* per caller: the call finished before that one
    todo,     \* per caller: the operations it has yet to invoke, in order
    nExt,     \* writes by other programs so far
    doc,      \* the document the callers have open: path, content, encoding
    rateLimiter,  \* the dispatcher's RateLimiter: maxCalls, windowMs, calls
    reached,  \* per sender URL: the times at which handleAction was entered
    reqs,     \* per caller: the 'rendererReq' whose target it awaits
    last,     \* the 'rendererReq' that was answered last
    nReq,     \* 'rendererReq' messages received so far
    nResp,    \* 'mainResp' messages sent so far
    pluginsEnabled,   \* PluginService: the plugins-enabled flag of the process
    exports,      \* ExportService: one record per 'export' message received
    ipcListeners, \* per channel: the listeners ipcMain.once registered
    limLog,       \* the canProceed and reset calls made on rateLimiter so far
    filenames,    \* a filename and the results of sanitizeFilename applied to it
    dialogOpen,   \* ipc/handlers.js: let dialogOpen
    clipboard,    \* the text on the system clipboard
    store,        \* config.store: the settings that are set
    windows,      \* per BrowserWindow: zoom factor, full screen, DevTools
    focused,      \* BrowserWindow.getFocusedWindow(): a window, or 0 for none
    received,     \* the IPC message handled last, and how many were handled
    rendererMsgs, \* the messages e.sender.send sent to renderers
    checked,      \* a path and what isOutsideAppDir answered for it
    preload,      \* the preload script: reqId, reqInfo, the callbacks invoked
    wm,           \* windowsRegistry, and the windows open, closed and with a
                  \* 'closed' listener; the first window exists from startup
    watch         \* fs.watchFile's listeners; the watches windows asked for
                  \* (asked) and gave up (stale); the pushes of the last change

ipcVars == <<rateLimiter, reached, reqs, last, nReq, nResp>>

hostVars == <<dialogOpen, clipboard, store, windows, focused, received, rendererMsgs>>

clientVars == <<preload, wm, watch>>

auxVars == <<checked, clientVars>>

svcVars == <<pluginsEnabled, exports, ipcListeners, limLog, filenames, hostVars,
             auxVars>>

vars == <<now, fs, call, prev, todo, nExt, doc, ipcVars, svcVars>>

Callers == {1, 2}

NoArgs ==
    [path |-> <<>>, data |-> <<>>, enc |-> Undefined, foEnc |-> Undefined,
     draftFileName |-> Undefined, origStat |-> Null, overwrite |-> FALSE,
     enableStoreBkp |-> TRUE, plugin |-> <<>>]

\* A call: its operation and arguments, where it stands (pc), its locals,
\* the filesystem operations it has performed (trace), its outcome, the disk
\* when it started (fs0) and whether another program or another call has
\* written to the disk since it started (disturbed).
NewCall(op, args, f) ==
    [op |-> op, args |-> args, pc |-> "enter",
     writeEnc |-> Undefined, retryCount |-> 0, backupCreated |-> FALSE,
     fileContent |-> <<>>, writtenData |-> Null, draftFileName |-> <<>>,
     draftsPaths |-> <<>>, drafts |-> <<>>, counter |-> 0, i |-> 0, stat |-> Null,
     dstFile |-> <<>>,
     trace |-> <<>>, status |-> "pending", code |-> "", value |-> Null,
     fs0 |-> f, disturbed |-> FALSE]

NoCall == [NewCall("none", NoArgs, <<>>) EXCEPT !.pc = "idle"]

Running(cr)  == cr.pc \notin {"idle", "done"}
Finished(cr) == cr.pc = "done"

\* throw new FileError(..., code, ...) / an error of the filesystem
Throw(cr, code) == [cr EXCEPT !.pc = "done", !.status = "error", !.code = code]
Return(cr, v)   == [cr EXCEPT !.pc = "done", !.status = "ok", !.value = v]
Goto(cr, pc)    == [cr EXCEPT !.pc = pc]
Did(cr, op, p)  == [cr EXCEPT !.trace = Append(@, [op |-> op, path |-> FsKey(p)])]

\* the result of one step: the call and the disk after it
Step(cr, f) == [call |-> cr, fs |-> f]

\* filesystem operations that create, change or remove a file
MutatingOps == {"open", "write", "unlink", "rename", "mkdir", "copy"}
Mutations(cr) == SelectSeq(cr.trace, LAMBDA e : e.op \in MutatingOps)

(***************************************************************************)
(* services/FileService.js: draft and backup names                         *)
(***************************************************************************)
DigitChars == <<"0", "1", "2", "3", "4", "5", "6", "7", "8", "9">>

\* `${counter}`
RECURSIVE Digits(_)
Digits(n) ==
    IF n < 10 THEN <<DigitChars[n + 1]>>
    ELSE Digits(n \div 10) \o <<DigitChars[(n % 10) + 1]>>

\* uniquePart of the n-th probe: '', '_1', '_2', ...
UniquePart(n) == IF n = 0 THEN <<>> ELSE <<"_">> \o Digits(n)

SiblingPath(prefix, filePath, uniquePart, ext) ==
    PathJoin(PathDirname(filePath),
             prefix \o PathBasename(filePath) \o uniquePart \o ext)

DraftPath(filePath, n) == SiblingPath(DRAFT_PREFEX, filePath, UniquePart(n), DRAFT_EXT)
bkpPath(filePath)      == SiblingPath(BKP_PREFEX, filePath, <<>>, BKP_EXT)
oldBkpPath(filePath)   == SiblingPath(OLD_BKP_PREFEX, filePath, <<>>, BKP_EXT)

\* the do-while of getDraftFileName, from probe n on
RECURSIVE ProbeDraft(_, _, _)
ProbeDraft(f, filePath, n) ==
    IF ExistsSync(f, DraftPath(filePath, n))
    THEN ProbeDraft(f, filePath, n + 1)
    ELSE DraftPath(filePath, n)

\* a draft name taken without probing for existing drafts
getDraftFileNameFirst(f, filePath) == DraftPath(filePath, 0)

getDraftFileName(f, filePath) == ProbeDraft(f, filePath, 0)

(***************************************************************************)
(* services/FileService.js: saveFile, one operator per turn of the event   *)
(* loop.  Each takes the call, the disk and the time and gives the call    *)
(* and the disk after the turn.                                            *)
(***************************************************************************)
\* defEnc || fileObject.encoding || 'utf8'
WriteEncOf(a) ==
    IF a.enc # Undefined THEN a.enc
    ELSE IF a.foEnc # Undefined THEN a.foEnc ELSE "utf8"

\* a head of saveFile that leaves out the size validation
saveFileEnterNoSizeCheck(cr, f, t) ==
    LET a  == cr.args
        c1 == [cr EXCEPT !.writeEnc = WriteEncOf(a)]
    IN  IF ~isOutsideAppDir(a.path) THEN Step(Throw(cr, "SECURITY_VIOLATION"), f)
        ELSE IF ~checkFileContent(Str(a.data), Undefined) \/ ~validateFileContent(a.data)
             THEN Step(Throw(cr, "FILE_INVALID"), f)
        ELSE IF a.overwrite THEN Step(Goto(c1, "open"), f)
        ELSE IF ExistsSync(f, a.path) THEN Step(Goto(c1, "stat"), f)
        ELSE Step(Goto(c1, "open"), f)

\* the synchronous head of saveFile: the three validations, then the choice
\* between doSaveFile(true) and the stat of the conflict check
saveFileEnter(cr, f, t) ==
    LET a  == cr.args
        c1 == [Did(cr, "exists", a.path) EXCEPT !.writeEnc = WriteEncOf(a)]
    IN  IF ~isOutsideAppDir(a.path) THEN Step(Throw(cr, "SECURITY_VIOLATION"), f)
        ELSE IF ~checkFileContent(Str(a.data), Undefined) \/ ~validateFileContent(a.data)
             THEN Step(Throw(cr, "FILE_INVALID"), f)
        ELSE IF ~validateFileSize(f, a.path)
             THEN Step(Throw(Did(cr, "exists", a.path), "FILE_TOO_LARGE"), f)
        ELSE IF a.overwrite THEN Step(Goto(c1, "open"), f)
        ELSE IF ExistsSync(f, a.path) THEN Step(Goto(c1, "stat"), f)
        ELSE Step(Goto(c1, "open"), f)

\* await fsProm.stat, the conflict check, and the entry of doSaveFile(false)
saveFileStat(cr, f, t) ==
    LET a  == cr.args
        c1 == Did(cr, "stat", a.path)
    IN  IF ~ExistsSync(f, a.path) THEN Step(Throw(c1, "ENOENT"), f)
        ELSE IF isConflict(a.origStat, [mtimeMs |-> f[FsKey(a.path)].mtime])
             THEN Step(Throw(c1, "FILE_CONFLICT"), f)
        ELSE IF a.enableStoreBkp THEN Step(Goto(c1, "bkpRead"), f)
        ELSE Step(Goto(c1, "open"), f)

\* doSaveFile: read the target for the backup; a failure is logged and the
\* save goes on without a backup
saveFileBkpRead(cr, f, t) ==
    LET a  == cr.args
        c1 == Did(cr, "read", a.path)
    IN  IF ~ExistsSync(f, a.path) THEN Step(Goto(c1, "open"), f)
        ELSE Step([Goto(c1, "bkpOpen") EXCEPT
                      !.fileContent = Decode(f[FsKey(a.path)].data, cr.writeEnc)], f)

\* doSaveFile: open the backup, O_SYNC | O_CREAT | O_WRONLY | O_TRUNC
saveFileBkpOpen(cr, f, t) ==
    LET b == bkpPath(cr.args.path)
    IN  Step(Goto(Did(cr, "open", b), "bkpWrite"), FsPut(f, b, FileRec(<<>>, t)))

\* doSaveFile: write the backup, sync, backupCreated = true, close
saveFileBkpWrite(cr, f, t) ==
    LET b  == bkpPath(cr.args.path)
        c1 == [Did(Did(cr, "write", b), "close", b) EXCEPT !.backupCreated = TRUE]
    IN  Step(Goto(c1, "open"),
             FsPut(f, b, FileRec(Encode(cr.fileContent, cr.writeEnc), t)))

\* writeFile: open the target, O_SYNC | O_CREAT | O_WRONLY | O_TRUNC
saveFileOpen(cr, f, t) ==
    Step(Goto(Did(cr, "open", cr.args.path), "write"),
         FsPut(f, cr.args.path, FileRec(<<>>, t)))

\* writeFile: write the data, sync, close
saveFileWrite(cr, f, t) ==
    LET a == cr.args
    IN  Step(Goto(Did(Did(cr, "write", a.path), "close", a.path), "verify"),
             FsPut(f, a.path, FileRec(Encode(a.data, cr.writeEnc), t)))

\* a read-back whose comparison is left out
saveFileVerifyUnchecked(cr, f, t) ==
    LET a  == cr.args
        c1 == [Did(Did(cr, "stat", a.path), "read", a.path) EXCEPT
                  !.writtenData = Str(Decode(f[FsKey(a.path)].data, cr.writeEnc))]
    IN  IF ~ExistsSync(f, a.path)
        THEN Step(Throw(Did(cr, "stat", a.path), "ENOENT"), f)
        ELSE Step(Return(c1, [mtimeMs |-> f[FsKey(a.path)].mtime,
                              size |-> f[FsKey(a.path)].size]), f)

\* a read-back that allows a fourth attempt
saveFileVerifyFourAttempts(cr, f, t) ==
    LET a           == cr.args
        writtenData == Decode(f[FsKey(a.path)].data, cr.writeEnc)
        c1          == [Did(Did(cr, "stat", a.path), "read", a.path) EXCEPT
                           !.writtenData = Str(writtenData)]
        stat2       == [mtimeMs |-> f[FsKey(a.path)].mtime,
                        size |-> f[FsKey(a.path)].size]
        old         == oldBkpPath(a.path)
    IN  IF ~ExistsSync(f, a.path)
        THEN Step(Throw(Did(cr, "stat", a.path), "ENOENT"), f)
        ELSE IF a.data # writtenData
             THEN IF cr.retryCount + 1 < 4
                  THEN Step([Goto(c1, "open") EXCEPT !.retryCount = @ + 1], f)
                  ELSE Step([Throw(c1, "FILE_INVALID") EXCEPT !.retryCount = @ + 1], f)
        ELSE IF cr.backupCreated /\ ExistsSync(f, old)
             THEN Step(Return(Did(c1, "unlink", old), stat2), FsDel(f, old))
        ELSE Step(Return(c1, stat2), f)

\* writeFile: stat and read back, compare, retry or fail or clean up and
\* return the stat
saveFileVerify(cr, f, t) ==
    LET a           == cr.args
        writtenData == Decode(f[FsKey(a.path)].data, cr.writeEnc)
        c1          == [Did(Did(cr, "stat", a.path), "read", a.path) EXCEPT
                           !.writtenData = Str(writtenData)]
        stat2       == [mtimeMs |-> f[FsKey(a.path)].mtime,
                        size |-> f[FsKey(a.path)].size]
        old         == oldBkpPath(a.path)
    IN  IF ~ExistsSync(f, a.path)
        THEN Step(Throw(Did(cr, "stat", a.path), "ENOENT"), f)
        ELSE IF a.data # writtenData
             THEN IF cr.retryCount + 1 < 3
                  THEN Step([Goto(c1, "open") EXCEPT !.retryCount = @ + 1], f)
                  ELSE Step([Throw(c1, "FILE_INVALID") EXCEPT !.retryCount = @ + 1], f)
        ELSE IF cr.backupCreated /\ ExistsSync(f, old)
             THEN Step(Return(Did(c1, "unlink", old), stat2), FsDel(f, old))
        ELSE Step(Return(c1, stat2), f)

(***************************************************************************)
(* writeFile, saveDraft, readFile                                          *)
(***************************************************************************)
writeFileEnter(cr, f, t) ==
    LET a == cr.args
    IN  IF ~isOutsideAppDir(a.path) THEN Step(Throw(cr, "SECURITY_VIOLATION"), f)
        ELSE IF ~checkFileContent(Str(a.data), a.enc) \/ ~validateFileContent(a.data)
             THEN Step(Throw(cr, "FILE_INVALID"), f)
        ELSE IF ~validateFileSize(f, a.path)
             THEN Step(Throw(Did(cr, "exists", a.path), "FILE_TOO_LARGE"), f)
        ELSE Step([Goto(Did(cr, "exists", a.path), "open") EXCEPT
                      !.writeEnc = IF a.enc = Undefined THEN "utf8" ELSE a.enc], f)

writeFileOpen(cr, f, t) == saveFileOpen(cr, f, t)

writeFileWrite(cr, f, t) ==
    LET a == cr.args
    IN  Step(Return(Did(Did(cr, "write", a.path), "close", a.path), Null),
             FsPut(f, a.path, FileRec(Encode(a.data, cr.writeEnc), t)))

\* the synchronous head of saveDraft: the name, then the validations
saveDraftEnter(cr, f, t) ==
    LET a    == cr.args
        name == IF a.draftFileName # Undefined THEN a.draftFileName
                ELSE getDraftFileName(f, a.path)
        c0   == [(IF a.draftFileName # Undefined THEN cr ELSE Did(cr, "exists", name))
                    EXCEPT !.draftFileName = name]
        c1   == Did(c0, "exists", name)
    IN  IF ~checkFileContent(Str(a.data), Undefined) \/ ~isOutsideAppDir(name)
        THEN Step(Throw(c0, "FILE_INVALID"), f)
        ELSE IF ~validateFileSize(f, name) \/ ~validateFileContent(a.data)
             THEN Step(Throw(c1, "FILE_TOO_LARGE"), f)
        ELSE Step(Goto(c1, "draftWrite"), f)

\* await fsProm.writeFile(draftFileName, data, 'utf8')
saveDraftWrite(cr, f, t) ==
    LET name == cr.draftFileName
    IN  Step(Return(Did(cr, "write", name), name),
             FsPut(f, name, FileRec(Utf8Encode(cr.args.data), t)))

\* the legacy name of the n-th draft
OldDraftPath(filePath, n) ==
    SiblingPath(OLD_DRAFT_PREFEX, filePath, UniquePart(n), DRAFT_EXT)

\* the first do-while of getFileDrafts from probe n on: the names pushed to
\* draftsPaths are those found to exist
RECURSIVE ProbedDrafts(_, _, _)
ProbedDrafts(f, filePath, n) ==
    IF ExistsSync(f, DraftPath(filePath, n))
    THEN <<DraftPath(filePath, n)>> \o ProbedDrafts(f, filePath, n + 1)
    ELSE <<>>

\* the loop that reads the drafts, at index cr.i of draftsPaths (from 0)
getFileDraftsNext(cr, f) ==
    IF cr.i < Len(cr.draftsPaths)
    THEN Step(Goto(cr, "draftsStat"), f)
    ELSE Step(Return(cr, cr.drafts), f)

\* the second do-while at its test of oldDraftFileName number cr.counter:
\* the call awaits the rename, or leaves the loop and reads from index 1
getFileDraftsMigrate(cr, f) ==
    LET old == OldDraftPath(cr.args.path, cr.counter)
        c1  == Did(cr, "exists", old)
    IN  IF ExistsSync(f, old) THEN Step(Goto(c1, "draftsRename"), f)
        ELSE getFileDraftsNext([c1 EXCEPT !.i = 1], f)

getFileDraftsEnter(cr, f, t) ==
    getFileDraftsMigrate(
        [Did(cr, "exists", DraftPath(cr.args.path, 0))
            EXCEPT !.draftsPaths = ProbedDrafts(f, cr.args.path, 0)], f)

\* await fsProm.rename(oldDraftFileName, newDraftFileName), which replaces
\* the new name if it exists and fails if the old one is gone
getFileDraftsRename(cr, f, t) ==
    LET old == OldDraftPath(cr.args.path, cr.counter)
        new == DraftPath(cr.args.path, cr.counter)
        c1  == [Did(cr, "rename", old) EXCEPT !.counter = @ + 1]
    IN  IF ExistsSync(f, old)
        THEN getFileDraftsMigrate(
                 [c1 EXCEPT !.draftsPaths = Append(@, new)],
                 FsPut(FsDel(f, old), new, f[FsKey(old)]))
        ELSE getFileDraftsMigrate(c1, f)

\* await fsProm.lstat(draftsPaths[i])
getFileDraftsStat(cr, f, t) ==
    LET p == cr.draftsPaths[cr.i + 1]
    IN  IF ExistsSync(f, p)
        THEN Step([Goto(Did(cr, "stat", p), "draftsRead")
                      EXCEPT !.stat = [mtimeMs |-> f[FsKey(p)].mtime]], f)
        ELSE getFileDraftsNext([Did(cr, "stat", p) EXCEPT !.i = @ + 1], f)

\* await fsProm.readFile(draftsPaths[i], 'utf8') and drafts.push
getFileDraftsRead(cr, f, t) ==
    LET p  == cr.draftsPaths[cr.i + 1]
        c1 == [Did(cr, "read", p) EXCEPT !.i = @ + 1]
    IN  IF ExistsSync(f, p)
        THEN getFileDraftsNext(
                 [c1 EXCEPT !.drafts =
                     Append(@, [data |-> Utf8Decode(f[FsKey(p)].data),
                                modified |-> cr.stat.mtimeMs, path |-> p])], f)
        ELSE getFileDraftsNext(c1, f)

readFileEnter(cr, f, t) ==
    LET a == cr.args
    IN  IF ~isOutsideAppDir(a.path) THEN Step(Throw(cr, "SECURITY_VIOLATION"), f)
        ELSE IF ~validateFileSize(f, a.path)
             THEN Step(Throw(Did(cr, "exists", a.path), "FILE_TOO_LARGE"), f)
        ELSE Step(Goto(Did(cr, "exists", a.path), "read"), f)

\* await fsProm.readFile(filename, encoding), then the content check
readFileRead(cr, f, t) ==
    LET a    == cr.args
        c1   == Did(cr, "read", a.path)
        data == IF a.enc = Undefined THEN Buf(f[FsKey(a.path)].data)
                ELSE Str(Decode(f[FsKey(a.path)].data, a.enc))
    IN  IF ~ExistsSync(f, a.path) THEN Step(Throw(c1, "ENOENT"), f)
        ELSE IF ~checkFileContent(data, a.enc) THEN Step(Throw(c1, "FILE_INVALID"), f)
        ELSE Step(Return(c1, data), f)

\* fileStat(file): await fsProm.stat(file)
fileStatEnter(cr, f, t) == Step(Goto(cr, "stat"), f)

fileStatStat(cr, f, t) ==
    LET c1 == Did(cr, "stat", cr.args.path)
    IN  IF ExistsSync(f, cr.args.path)
        THEN Step(Return(c1, [mtimeMs |-> f[FsKey(cr.args.path)].mtime,
                              size |-> f[FsKey(cr.args.path)].size]), f)
        ELSE Step(Throw(c1, "ENOENT"), f)

\* isFileWritable(file): await fsProm.access(file, W_OK), true or false
isFileWritableEnter(cr, f, t) == Step(Goto(cr, "access"), f)

isFileWritableAccess(cr, f, t) ==
    Step(Return(Did(cr, "access", cr.args.path), ExistsSync(f, cr.args.path)), f)

\* checkFileExists(pathParts), with the one part cr.args.path
checkFileExists(cr, f, t) ==
    LET filePath == PathNormalize(cr.args.path)
    IN  Step(Return(Did(cr, "exists", filePath),
                    [exists |-> ExistsSync(f, filePath), path |-> filePath]), f)

\* watchFile(filePath) of the dispatcher: nothing without a focused window
\* win, else fs.watchFile(filePath, listener)
watchFile(cr, f, t, win) ==
    IF ~win THEN Step(Return(cr, Undefined), f)
    ELSE Step(Return(Did(cr, "watch", cr.args.path), Undefined), f)

\* deleteFile(file): await fsProm.open(file, O_RDONLY)
deleteFileEnter(cr, f, t) == Step(Goto(cr, "delOpen"), f)

deleteFileOpen(cr, f, t) ==
    LET c1 == Did(cr, "openRead", cr.args.path)
    IN  IF ExistsSync(f, cr.args.path)
        THEN Step([Goto(c1, "delRead")
                      EXCEPT !.fileContent = f[FsKey(cr.args.path)].data], f)
        ELSE Step(Throw(c1, "ENOENT"), f)

\* Buffer.allocUnsafe(16) holds the bytes junk; await fh.read(buffer, 0, 16)
\* puts the first bytes of the file over them.  The file is read through its
\* handle: if its name is gone, it holds what it held when it was opened.
ReadInto(junk, bytes) ==
    [k \in 1..Len(junk) |-> IF k <= Len(bytes) THEN bytes[k] ELSE junk[k]]

deleteFileRead(cr, f, t, junk) ==
    LET bytes == IF ExistsSync(f, cr.args.path) THEN f[FsKey(cr.args.path)].data
                 ELSE cr.fileContent
    IN  Step([Goto(Did(cr, "read", cr.args.path), "delClose")
                 EXCEPT !.fileContent = ReadInto(junk, bytes)], f)

\* await fh.close(), the check, and the call of fsProm.unlink
deleteFileClose(cr, f, t) ==
    IF ~checkFileContent(Buf(cr.fileContent), Undefined) \/ ~isOutsideAppDir(cr.args.path)
    THEN Step(Throw(cr, "SECURITY_VIOLATION"), f)
    ELSE Step(Goto(cr, "delUnlink"), f)

\* await fsProm.unlink(file)
deleteFileUnlink(cr, f, t) ==
    LET c1 == Did(cr, "unlink", cr.args.path)
    IN  IF ExistsSync(f, cr.args.path)
        THEN Step(Return(c1, Undefined), FsDel(f, cr.args.path))
        ELSE Step(Throw(c1, "ENOENT"), f)

(***************************************************************************)
(* main/electron-new.js: the trusted content URL and validateSender        *)
(***************************************************************************)
\* the directory of the web application and its file: URL
codeDir == <<"/", "a", "/", "w">>
codeUrl == <<"f", "i", "l", "e", ":", "/", "/">> \o codeDir

\* String.prototype.toUpperCase, on the letters the URLs of the model carry
UpperOf ==
    ("a" :> "A") @@ ("c" :> "C") @@ ("e" :> "E") @@ ("f" :> "F") @@ ("h" :> "H")
    @@ ("i" :> "I") @@ ("l" :> "L") @@ ("p" :> "P") @@ ("s" :> "S") @@ ("t" :> "T")
    @@ ("w" :> "W") @@ ("x" :> "X")
ToUpperCase(str) ==
    [i \in 1..Len(str) |-> IF str[i] \in DOMAIN UpperOf THEN UpperOf[str[i]] ELSE str[i]]

\* the places where the regular expression /\/\.:\// matches in str: a slash,
\* a literal dot, a colon, a slash
DriveMatches(str) ==
    {i \in 1..(Len(str) - 3) : SubSeq(str, i, i + 3) = <<"/", ".", ":", "/">>}

\* str.replace(/\/\.:\//, str => str.toUpperCase()): the first match in upper case
ReplaceDrive(str) ==
    IF DriveMatches(str) = {} THEN str
    ELSE LET i == CHOOSE k \in DriveMatches(str) : \A m \in DriveMatches(str) : k <= m
         IN  SubSeq(str, 1, i - 1) \o ToUpperCase(SubSeq(str, i, i + 3))
             \o SubSeq(str, i + 4, Len(str))

\* a sender frame is Null (no frame) or carries a url
Frame(u) == [kind |-> "frame", url |-> u]

\* a check that asks only for a frame
validateSenderAnyFrame(frame) == frame # Null

\* frame?.url?.replace(...).startsWith(codeUrl)
validateSender(frame) ==
    IF frame = Null THEN FALSE ELSE StartsWith(ReplaceDrive(frame.url), codeUrl)

(***************************************************************************)
(* utils/security.js: RateLimiter                                          *)
(***************************************************************************)
\* new RateLimiter(maxCalls, windowMs)
RateLimiter(maxC, winMs) == [maxCalls |-> maxC, windowMs |-> winMs, calls |-> <<>>]

\* Map.get(key) || []
CallsOf(limiter, key) ==
    IF key \in DOMAIN limiter.calls THEN limiter.calls[key] ELSE <<>>

\* canProceed less often by one comparison: the cap itself is let through
canProceedOverCap(limiter, key, t) ==
    LET recentCalls == SelectSeq(CallsOf(limiter, key),
                                 LAMBDA ts : t - ts < limiter.windowMs)
    IN  IF Len(recentCalls) > limiter.maxCalls
        THEN [ok |-> FALSE, limiter |-> limiter]
        ELSE [ok |-> TRUE,
              limiter |-> [limiter EXCEPT !.calls =
                  [k \in DOMAIN limiter.calls \cup {key} |->
                      IF k = key THEN Append(recentCalls, t) ELSE limiter.calls[k]]]]

\* canProceed without the filter: a recorded call counts for ever
canProceedNoExpiry(limiter, key, t) ==
    LET recentCalls == CallsOf(limiter, key)
    IN  IF Len(recentCalls) >= limiter.maxCalls
        THEN [ok |-> FALSE, limiter |-> limiter]
        ELSE [ok |-> TRUE,
              limiter |-> [limiter EXCEPT !.calls =
                  [k \in DOMAIN limiter.calls \cup {key} |->
                      IF k = key THEN Append(recentCalls, t) ELSE limiter.calls[k]]]]

\* canProceed(key) at time t: whether the call may go on, and the limiter after
canProceed(limiter, key, t) ==
    LET recentCalls == SelectSeq(CallsOf(limiter, key),
                                 LAMBDA ts : t - ts < limiter.windowMs)
    IN  IF Len(recentCalls) >= limiter.maxCalls
        THEN [ok |-> FALSE, limiter |-> limiter]
        ELSE [ok |-> TRUE,
              limiter |-> [limiter EXCEPT !.calls =
                  [k \in DOMAIN limiter.calls \cup {key} |->
                      IF k = key THEN Append(recentCalls, t) ELSE limiter.calls[k]]]]

\* a reset that forgets nothing
resetKeepsCalls(limiter, key) == limiter

\* reset(key): this.calls.delete(key)
reset(limiter, key) ==
    [limiter EXCEPT !.calls = [k \in DOMAIN limiter.calls \ {key} |->
                                  limiter.calls[k]]]

(***************************************************************************)
(* ipc/handlers.js: the 'rendererReq' dispatcher                           *)
(***************************************************************************)
maxCalls == 100
windowMs == 60000

\* the switch of handleAction: the target operation of each action name
ROUTES ==
    [saveFile           |-> "FileService.saveFile",
     writeFile          |-> "FileService.writeFile",
     saveDraft          |-> "FileService.saveDraft",
     getFileDrafts      |-> "FileService.getFileDrafts",
     getDocumentsFolder |-> "FileService.getDocumentsFolder",
     checkFileExists    |-> "FileService.checkFileExists",
     showOpenDialog     |-> "dialog.showOpenDialog",
     showSaveDialog     |-> "dialog.showSaveDialog",
     installPlugin      |-> "PluginService.installPlugin",
     uninstallPlugin    |-> "PluginService.uninstallPlugin",
     getPluginFile      |-> "PluginService.getPluginFile",
     isPluginsEnabled   |-> "PluginService.isPluginsEnabled",
     dirname            |-> "FileService.dirname",
     readFile           |-> "FileService.readFile",
     clipboardAction    |-> "handleClipboardAction",
     deleteFile         |-> "FileService.deleteFile",
     fileStat           |-> "FileService.fileStat",
     isFileWritable     |-> "FileService.isFileWritable",
     windowAction       |-> "handleWindowAction",
     openExternal       |-> "openExternal",
     watchFile          |-> "watchFile",
     unwatchFile        |-> "unwatchFile",
     exit               |-> "app.quit",
     isFullscreen       |-> "WindowManager.isFullScreen"]

\* a switch whose default falls through to the case of 'dirname'
handleActionTargetFallThrough(action) ==
    IF action \in DOMAIN ROUTES THEN ROUTES[action] ELSE "FileService.dirname"

\* the target handleAction selects for an action name; Undefined is the
\* default of the switch, which throws
handleActionTarget(action) ==
    IF action \in DOMAIN ROUTES THEN ROUTES[action] ELSE Undefined

\* the targets of the file store that the model follows turn by turn
FileTargets ==
    {"FileService.saveFile", "FileService.writeFile", "FileService.saveDraft",
     "FileService.readFile"}

\* the other targets that handleAction awaits
AwaitedTargets ==
    {"FileService.getFileDrafts", "dialog.showOpenDialog", "dialog.showSaveDialog",
     "PluginService.installPlugin", "FileService.deleteFile", "FileService.fileStat",
     "FileService.isFileWritable"}

\* the targets after which handleAction returns null, whatever they returned
NullTargets ==
    {"handleClipboardAction", "FileService.deleteFile", "unwatchFile", "app.quit"}

\* what handleAction returns once target has returned: null, or the value
\* of the target, which stands for itself
ResultOf(target) == IF target \in NullTargets THEN Null ELSE Str(target)

\* app.getPath('appData') and the folder getAppDataFolder keeps in it
appDataDir == <<"/", "d">>
drawioDir  == PathJoin(appDataDir, <<"d", "r", "a", "w", ".", "i", "o">>)

\* getAppDataFolder: fs.mkdirSync of the folder when it is missing (a
\* directory is an entry of the disk without content)
getAppDataFolder(f, t) ==
    IF ExistsSync(f, drawioDir) THEN f ELSE FsPut(f, drawioDir, FileRec(<<>>, t))

\* the 'mainResp' messages
\* the replies of event.reply('mainResp', ...); msg is the text of the
\* message, in its parts
\* e is the error object the reply carries along
ErrorResp(msg, code, reqId) ==
    [error |-> TRUE, msg |-> msg, code |-> code, data |-> Null, reqId |-> reqId,
     e |-> Null]
SuccessResp(data, reqId) ==
    [error |-> FALSE, msg |-> <<>>, code |-> "", data |-> data, reqId |-> reqId,
     e |-> Null]

\* utils/error-handler.js: ErrorCodes
ErrorCodes ==
    {"FILE_NOT_FOUND", "FILE_ACCESS_DENIED", "FILE_TOO_LARGE", "FILE_INVALID",
     "FILE_CONFLICT", "PATH_TRAVERSAL", "SECURITY_VIOLATION", "EXPORT_FAILED",
     "NETWORK_ERROR", "TIMEOUT", "UNKNOWN_ERROR"}

\* the error objects: message is the diagnostic text, in its parts, stack
\* the trace the runtime attaches; an AppError has a userMessage besides
Error(message, code) ==
    [appError |-> FALSE, message |-> message, code |-> code, userMessage |-> <<>>,
     stack |-> <<"stack">>]
AppError(message, code, userMessage) ==
    [appError |-> TRUE, message |-> message, code |-> code,
     userMessage |-> IF userMessage = <<>> THEN message ELSE userMessage,
     stack |-> <<"stack">>]
FileError(message, code) == AppError(message, code, <<"File error: ">> \o message)

\* the user-facing text of each known error code
ERROR_MESSAGES ==
    [c \in {"FILE_NOT_FOUND", "FILE_ACCESS_DENIED", "FILE_TOO_LARGE", "FILE_INVALID",
            "FILE_CONFLICT", "PATH_TRAVERSAL", "SECURITY_VIOLATION", "EXPORT_FAILED",
            "NETWORK_ERROR", "TIMEOUT", "UNKNOWN_ERROR"} |->
        CASE c = "FILE_NOT_FOUND"     -> <<"The requested file could not be found.">>
          [] c = "FILE_ACCESS_DENIED" -> <<"Access to the file was denied.">>
          [] c = "FILE_TOO_LARGE"     -> <<"The file is too large to process.">>
          [] c = "FILE_INVALID"       -> <<"The file format is invalid or corrupted.">>
          [] c = "FILE_CONFLICT"      -> <<"The file has been modified by another program.">>
          [] c = "PATH_TRAVERSAL"     -> <<"Invalid file path detected.">>
          [] c = "SECURITY_VIOLATION" -> <<"A security error occurred.">>
          [] c = "EXPORT_FAILED"      -> <<"Failed to export the diagram.">>
          [] c = "NETWORK_ERROR"      -> <<"A network error occurred.">>
          [] c = "TIMEOUT"            -> <<"The operation timed out.">>
          [] c = "UNKNOWN_ERROR"      -> <<"An unexpected error occurred.">>]

\* getUserFriendlyError(error)
getUserFriendlyError(error) ==
    IF error.appError THEN error.userMessage
    ELSE IF error.code \in DOMAIN ERROR_MESSAGES THEN ERROR_MESSAGES[error.code]
    ELSE ERROR_MESSAGES["UNKNOWN_ERROR"]

\* a handler that stays silent to a sender it does not trust
NoResp(args) == <<>>

\* the reply to a sender that fails validateSender
InvalidSenderResp(args) == <<ErrorResp(<<"Invalid sender">>, "", args.reqId)>>

\* the reply when the rate limiter refuses
RateLimitResp(args) == <<ErrorResp(<<"Rate limit exceeded">>, "", args.reqId)>>

\* the reply of the catch block to an error of handleAction
CaughtResp(error, args) ==
    <<[ErrorResp(error.message, error.code, args.reqId) EXCEPT !.e = error]>>

\* the reply after handleAction returned
ResultResp(data, args) == <<SuccessResp(data, args.reqId)>>

\* the error a failed call of the file store threw: a FileError of the
\* store, or the error of the fs module ErrorCodes does not list
ThrownBy(cr) ==
    IF cr.code \in ErrorCodes THEN FileError(<<"FileError">>, cr.code)
    ELSE Error(<<"Error">>, cr.code)

\* the reply to the outcome of a call of the file store
CallResp(cr, args) ==
    IF cr.status = "ok" THEN ResultResp(cr.value, args)
    ELSE CaughtResp(ThrownBy(cr), args)

\* the file-store call a request starts, before its first step
CallOf(args, f) ==
    CASE args.action = "saveFile" ->
            NewCall("saveFile",
                    [NoArgs EXCEPT !.path = args.path, !.data = args.data,
                                   !.foEnc = args.enc, !.origStat = args.origStat,
                                   !.overwrite = args.overwrite], f)
      [] args.action = "writeFile" ->
            NewCall("writeFile",
                    [NoArgs EXCEPT !.path = args.path, !.data = args.data,
                                   !.enc = args.enc], f)
      [] args.action = "saveDraft" ->
            NewCall("saveDraft",
                    [NoArgs EXCEPT !.path = args.path, !.data = args.data], f)
      [] args.action = "readFile" ->
            NewCall("readFile", [NoArgs EXCEPT !.path = args.path, !.enc = args.enc], f)

\* the synchronous head of the target of the file store
EnterCall(args, f, t) ==
    CASE args.action = "saveFile"  -> saveFileEnter(CallOf(args, f), f, t)
      [] args.action = "writeFile" -> writeFileEnter(CallOf(args, f), f, t)
      [] args.action = "saveDraft" -> saveDraftEnter(CallOf(args, f), f, t)
      [] args.action = "readFile"  -> readFileEnter(CallOf(args, f), f, t)

\* A request as the dispatcher holds it: the sender frame, the arguments,
\* whether the handler awaits the target (stage), the target handleAction
\* selected, what validateSender and canProceed answered, and the messages
\* sent with event.reply.
Req(frame, args) ==
    [frame |-> frame, args |-> args, stage |-> "done", target |-> Undefined,
     valid |-> FALSE, proceed |-> FALSE, out |-> <<>>]

NoReq == [Req(Null, [reqId |-> 0, action |-> ""]) EXCEPT !.stage = "idle"]

\* the result of the handler's first turn: out are the replies it sent
Handled(rq, limiter, rch, f, cr, out) ==
    [req |-> [rq EXCEPT !.out = out], limiter |-> limiter, reached |-> rch,
     fs |-> f, call |-> cr]

\* handleAction after the synchronous head of a target of the file store
\* gave e: the target has thrown, or the handler awaits it
AfterEnter(rq, limiter, rch, e) ==
    IF Finished(e.call)
    THEN Handled(rq, limiter, rch, e.fs, e.call, CallResp(e.call, rq.args))
    ELSE Handled([rq EXCEPT !.stage = "await"], limiter, rch, e.fs, e.call, <<>>)

\* the switch of handleAction, on the disk f that getAppDataFolder left: ok
\* says whether a target that does not wait returns or throws
Dispatch(rq, target, limiter, rch, f, t, ok) ==
    IF target = Undefined
    THEN Handled([rq EXCEPT !.target = target], limiter, rch, f, NoCall,
                 CaughtResp(Error(<<"Unknown action: ", rq.args.action>>, ""), rq.args))
    ELSE IF target \in FileTargets
    THEN AfterEnter([rq EXCEPT !.target = target], limiter, rch,
                    EnterCall(rq.args, f, t))
    ELSE IF target \in AwaitedTargets
    THEN Handled([rq EXCEPT !.target = target, !.stage = "await"], limiter, rch, f,
                 NoCall, <<>>)
    ELSE IF ok
    THEN Handled([rq EXCEPT !.target = target], limiter, rch, f, NoCall,
                 ResultResp(ResultOf(target), rq.args))
    ELSE Handled([rq EXCEPT !.target = target], limiter, rch, f, NoCall,
                 CaughtResp(Error(<<"Error">>, ""), rq.args))

\* handleAction(args) up to its first await, entered at time t
handleAction(rq, limiter, rch, f, t, ok) ==
    Dispatch(rq, handleActionTarget(rq.args.action), limiter, rch,
             getAppDataFolder(f, t), t, ok)

\* the log of the entries of handleAction, with one of sender key at time t
Entered(rch, key, t) ==
    [k \in DOMAIN rch \cup {key} |->
        IF k # key THEN rch[k]
        ELSE Append(IF key \in DOMAIN rch THEN rch[key] ELSE <<>>, t)]

\* the listener of 'rendererReq' after validateSender passed and canProceed
\* answered lim
RateLimited(rq, lim, limiter, rch, f, t, ok) ==
    IF ~lim.ok
    THEN Handled(rq, limiter, rch, f, NoCall, RateLimitResp(rq.args))
    ELSE handleAction([rq EXCEPT !.proceed = TRUE], lim.limiter,
                      Entered(rch, rq.frame.url, t), f, t, ok)

\* the listener of 'rendererReq', up to its first await; the key of the
\* limiter is event.senderFrame?.url || 'unknown'
rendererReq(frame, args, limiter, rch, f, t, ok) ==
    IF ~validateSender(frame)
    THEN Handled(Req(frame, args), limiter, rch, f, NoCall, InvalidSenderResp(args))
    ELSE RateLimited([Req(frame, args) EXCEPT !.valid = TRUE],
                     canProceed(limiter, frame.url, t), limiter, rch, f, t, ok)

(***************************************************************************)
(* Actions of the file store.  A call starts with its synchronous head;    *)
(* every later turn is one action.                                         *)
(***************************************************************************)
\* the documents a caller may have open
Docs ==
    [path : PathSamples,
     data : {XmlData, PlainData, DotsData, LoneData, WebpData},
     enc  : {Undefined, "base64"}]

\* what a caller does with its document: one operation, or a save and then a
\* read, or two drafts
Plans ==
    { <<"saveFile">>, <<"writeFile">>, <<"saveDraft">>, <<"readFile">>,
      <<"saveFile", "readFile">>, <<"saveDraft", "saveDraft">> }

InitFileStore ==
    /\ now = 0
    /\ fs = InitialDisk
    /\ call = [c \in Callers |-> NoCall]
    /\ prev = [c \in Callers |-> NoCall]
    /\ nExt = 0
    /\ doc \in Docs

\* the other services as their modules start: let pluginsEnabled = false
ExportChannels ==
    {"export-finalize", "render-finished", "xml-data", "xml-data-error",
     "svg-data"}

\* nothing checked
InitClient ==
    /\ preload = [reqId |-> 1, reqInfo |-> {}, issued |-> <<>>, replies |-> <<>>,
                  invoked |-> <<>>]
    /\ wm = [windowsRegistry |-> <<1>>, open |-> {1}, closed |-> {}, listening |-> {1}]
    /\ watch = [listeners |-> <<>>, asked |-> {}, stale |-> {},
                last |-> [path |-> <<>>, to |-> <<>>], changes |-> 0, n |-> 0]

InitAux ==
    /\ checked = [path |-> <<>>, done |-> FALSE, outside |-> FALSE]
    /\ InitClient

\* the windows of the application
Windows == {1, 2}

\* no message handled yet; entered counts, per window, the requests of the
\* window that reached handleAction
NoMessage(entered) ==
    [n |-> 0, channel |-> "", window |-> 0, frame |-> Null, entered |-> entered]

\* the host as the application starts: no dialog, both windows at zoom
\* factor 1 (in hundredths), nothing set in the store
InitHost ==
    /\ dialogOpen = FALSE
    /\ clipboard = <<"c">>
    /\ store = <<>>
    /\ windows = [w \in Windows |->
                     [zoomFactor |-> 100, fullScreen |-> FALSE, devTools |-> FALSE]]
    /\ focused = 1
    /\ received = NoMessage([w \in Windows |-> 0])
    /\ rendererMsgs = <<>>

InitExport ==
    /\ exports = <<>>
    /\ ipcListeners = [ch \in ExportChannels |-> <<>>]
    /\ limLog = <<>>
    /\ filenames = [input |-> <<>>, outs |-> <<>>]
    /\ InitHost
    /\ InitAux

InitServices ==
    /\ pluginsEnabled = FALSE
    /\ InitExport

\* the dispatcher after prior requests of sender key, all at time t and all
\* answered
InitDispatcher(key, prior, t) ==
    /\ rateLimiter = [RateLimiter(maxCalls, windowMs) EXCEPT
                          !.calls = IF prior = 0 THEN <<>>
                                    ELSE (key :> Repeat(t, prior))]
    /\ reached = IF prior = 0 THEN <<>> ELSE (key :> Repeat(t, prior))
    /\ reqs = [c \in Callers |-> NoReq]
    /\ last = NoReq
    /\ nReq = 0
    /\ nResp = 0

Init ==
    /\ InitFileStore
    /\ \E pl \in Plans : todo = [c \in Callers |-> IF c = 1 THEN pl ELSE <<>>]
    /\ InitDispatcher(<<>>, 0, 0)
    /\ InitServices

\* caller c's call becomes r.call and the disk r.fs; the call of another
\* caller notes that the disk changed
Advance(c, r) ==
    /\ call' = [d \in Callers |->
                  IF d = c THEN r.call
                  ELSE IF call[d].pc # "idle" /\ r.fs # fs
                       THEN [call[d] EXCEPT !.disturbed = TRUE]
                       ELSE call[d]]
    /\ fs' = r.fs

\* caller c may invoke op next
MayInvoke(c, op) == ~Running(call[c]) /\ todo[c] # <<>> /\ Head(todo[c]) = op

\* caller c invokes its next operation: the call it made before is kept
Invoked(c) ==
    /\ prev' = [prev EXCEPT ![c] = call[c]]
    /\ todo' = [todo EXCEPT ![c] = Tail(@)]
    /\ UNCHANGED <<now, nExt, doc, ipcVars, svcVars>>

\* caller c's call is at turn pc of op
AtTurn(c, op, pc) == call[c].op = op /\ call[c].pc = pc

OrigStats == {Null} \cup {[mtimeMs |-> t] : t \in 0..MaxTime}

StartSaveFile(c) ==
    /\ MayInvoke(c, "saveFile")
    /\ \E os \in OrigStats, ow \in BOOLEAN, bk \in BOOLEAN :
          Advance(c, saveFileEnter(
              NewCall("saveFile",
                      [NoArgs EXCEPT !.path = doc.path, !.data = doc.data,
                                     !.foEnc = doc.enc, !.origStat = os,
                                     !.overwrite = ow, !.enableStoreBkp = bk], fs),
              fs, now))
    /\ Invoked(c)

SaveFileStat(c) ==
    /\ AtTurn(c, "saveFile", "stat")
    /\ Advance(c, saveFileStat(call[c], fs, now))
    /\ UNCHANGED <<now, prev, todo, nExt, doc, ipcVars, svcVars>>

SaveFileBkpRead(c) ==
    /\ AtTurn(c, "saveFile", "bkpRead")
    /\ Advance(c, saveFileBkpRead(call[c], fs, now))
    /\ UNCHANGED <<now, prev, todo, nExt, doc, ipcVars, svcVars>>

SaveFileBkpOpen(c) ==
    /\ AtTurn(c, "saveFile", "bkpOpen")
    /\ Advance(c, saveFileBkpOpen(call[c], fs, now))
    /\ UNCHANGED <<now, prev, todo, nExt, doc, ipcVars, svcVars>>

SaveFileBkpWrite(c) ==
    /\ AtTurn(c, "saveFile", "bkpWrite")
    /\ Advance(c, saveFileBkpWrite(call[c], fs, now))
    /\ UNCHANGED <<now, prev, todo, nExt, doc, ipcVars, svcVars>>

SaveFileOpen(c) ==
    /\ AtTurn(c, "saveFile", "open")
    /\ Advance(c, saveFileOpen(call[c], fs, now))
    /\ UNCHANGED <<now, prev, todo, nExt, doc, ipcVars, svcVars>>

SaveFileWrite(c) ==
    /\ AtTurn(c, "saveFile", "write")
    /\ Advance(c, saveFileWrite(call[c], fs, now))
    /\ UNCHANGED <<now, prev, todo, nExt, doc, ipcVars, svcVars>>

SaveFileVerify(c) ==
    /\ AtTurn(c, "saveFile", "verify")
    /\ Advance(c, saveFileVerify(call[c], fs, now))
    /\ UNCHANGED <<now, prev, todo, nExt, doc, ipcVars, svcVars>>

StartWriteFile(c) ==
    /\ MayInvoke(c, "writeFile")
    /\ Advance(c, writeFileEnter(
          NewCall("writeFile",
                  [NoArgs EXCEPT !.path = doc.path, !.data = doc.data,
                                 !.enc = doc.enc], fs),
          fs, now))
    /\ Invoked(c)

WriteFileOpen(c) ==
    /\ AtTurn(c, "writeFile", "open")
    /\ Advance(c, writeFileOpen(call[c], fs, now))
    /\ UNCHANGED <<now, prev, todo, nExt, doc, ipcVars, svcVars>>

WriteFileWrite(c) ==
    /\ AtTurn(c, "writeFile", "write")
    /\ Advance(c, writeFileWrite(call[c], fs, now))
    /\ UNCHANGED <<now, prev, todo, nExt, doc, ipcVars, svcVars>>

StartSaveDraft(c) ==
    /\ MayInvoke(c, "saveDraft")
    /\ \E n \in {Undefined, DraftPath(doc.path, 0)} :
          Advance(c, saveDraftEnter(
              NewCall("saveDraft",
                      [NoArgs EXCEPT !.path = doc.path, !.data = doc.data,
                                     !.draftFileName = n], fs),
              fs, now))
    /\ Invoked(c)

SaveDraftWrite(c) ==
    /\ AtTurn(c, "saveDraft", "draftWrite")
    /\ Advance(c, saveDraftWrite(call[c], fs, now))
    /\ UNCHANGED <<now, prev, todo, nExt, doc, ipcVars, svcVars>>

StartReadFile(c) ==
    /\ MayInvoke(c, "readFile")
    /\ Advance(c, readFileEnter(
          NewCall("readFile", [NoArgs EXCEPT !.path = doc.path, !.enc = doc.enc], fs),
          fs, now))
    /\ Invoked(c)

ReadFileRead(c) ==
    /\ AtTurn(c, "readFile", "read")
    /\ Advance(c, readFileRead(call[c], fs, now))
    /\ UNCHANGED <<now, prev, todo, nExt, doc, ipcVars, svcVars>>

\* another program writes the callers' file
ExternalWrite ==
    /\ nExt < MaxExt
    /\ fs' = FsPut(fs, doc.path, FileRec(Utf8Encode(PlainData), now))
    /\ call' = [c \in Callers |->
                  IF call[c].pc # "idle" THEN [call[c] EXCEPT !.disturbed = TRUE]
                  ELSE call[c]]
    /\ nExt' = nExt + 1
    /\ UNCHANGED <<now, prev, todo, doc, ipcVars, svcVars>>

\* a millisecond passes
Tick ==
    /\ now < MaxTime
    /\ now' = now + 1
    /\ UNCHANGED <<fs, call, prev, todo, nExt, doc, ipcVars, svcVars>>

\* the file store used by one caller, beside other programs
Next ==
    \/ StartSaveFile(1)
    \/ SaveFileStat(1)
    \/ SaveFileBkpRead(1)
    \/ SaveFileBkpOpen(1)
    \/ SaveFileBkpWrite(1)
    \/ SaveFileOpen(1)
    \/ SaveFileWrite(1)
    \/ SaveFileVerify(1)
    \/ StartWriteFile(1)
    \/ WriteFileOpen(1)
    \/ WriteFileWrite(1)
    \/ StartSaveDraft(1)
    \/ SaveDraftWrite(1)
    \/ StartReadFile(1)
    \/ ReadFileRead(1)
    \/ ExternalWrite
    \/ Tick

Spec == Init /\ [][Next]_vars

(***************************************************************************)
(* utils/security.js: sanitizeFilename; services/PluginService.js          *)
(***************************************************************************)
WhiteSpace == {" ", "\t", "\n"}

\* .replace(/\s+/g, ' '): of a run of whitespace the last character stays,
\* as a space
CollapseSpaces(str) ==
    LET marked == [k \in 1..Len(str) |->
                     [ch   |-> IF str[k] \in WhiteSpace THEN " " ELSE str[k],
                      drop |-> /\ str[k] \in WhiteSpace
                               /\ k < Len(str)
                               /\ str[k + 1] \in WhiteSpace]]
        kept   == SelectSeq(marked, LAMBDA m : ~m.drop)
    IN  [k \in 1..Len(kept) |-> kept[k].ch]

\* .trim()
Trim(str) ==
    LET inked == {k \in 1..Len(str) : str[k] \notin WhiteSpace}
    IN  IF inked = {} THEN <<>>
        ELSE SubSeq(str, CHOOSE k \in inked : \A j \in inked : k <= j,
                         CHOOSE k \in inked : \A j \in inked : j <= k)

sanitizeFilename(filename) ==
    LET noSep     == SelectSeq(filename, LAMBDA ch : ch \notin {"/", "\\"})
        noDanger  == SelectSeq(noSep, LAMBDA ch :
                                  ch \notin {"<", ">", ":", "\"", "|", "?", "*"})
        sanitized == Prefix(Trim(CollapseSpaces(noDanger)), 255)
    IN  IF \A k \in 1..Len(sanitized) : sanitized[k] = "."
        THEN <<"u", "n", "n", "a", "m", "e", "d">>
        ELSE sanitized

\* getPluginsDir(appDataFolder)
getPluginsDir(appDataFolder) ==
    PathJoin(appDataFolder, <<"p", "l", "u", "g", "i", "n", "s">>)

\* the files of directory dir on disk f (directories are entries without
\* content beside them, and have entries below them or are empty)
FilesIn(f, dir) == {p \in DOMAIN f : PathDirname(p) = FsKey(dir)}

\* a lookup that does not ask whether plugins are enabled
getPluginFileUnguarded(f, enabled, plugin, appDataFolder) ==
    LET pluginFile == PathJoin(getPluginsDir(appDataFolder), sanitizeFilename(plugin))
    IN  IF ExistsSync(f, pluginFile) THEN pluginFile ELSE Null

\* getPluginFile(plugin, appDataFolder): the path of the plugin or null
getPluginFile(f, enabled, plugin, appDataFolder) ==
    LET pluginsDir == getPluginsDir(appDataFolder)
        pluginFile == PathJoin(pluginsDir, sanitizeFilename(plugin))
    IN  IF ~enabled THEN Null
        ELSE IF ~StartsWith(pluginFile, pluginsDir) THEN Null
        ELSE IF ~ExistsSync(f, pluginFile) THEN Null
        ELSE pluginFile

\* the call getPluginFile(plugin, appDataFolder) of the dispatcher
getPluginFileCall(cr, f, t, enabled) ==
    Step(Return(IF enabled THEN Did(cr, "exists", cr.args.plugin) ELSE cr,
                getPluginFile(f, enabled, cr.args.plugin, drawioDir)), f)

\* uninstallPlugin(plugin, appDataFolder): fs.unlinkSync of the plugin's file
uninstallPlugin(cr, f, t, enabled) ==
    LET pluginFile == getPluginFile(f, enabled, cr.args.plugin, drawioDir)
    IN  IF pluginFile = Null THEN Step(Return(cr, Undefined), f)
        ELSE Step(Return(Did(cr, "unlink", pluginFile), Undefined),
                  FsDel(f, pluginFile))

\* listPlugins(appDataFolder): the names of the files of the plugins folder
listPlugins(cr, f, t, enabled) ==
    LET pluginsDir == getPluginsDir(drawioDir)
    IN  IF ~enabled THEN Step(Return(cr, {}), f)
        ELSE IF ~ExistsSync(f, pluginsDir)
        THEN Step(Return(Did(cr, "exists", pluginsDir), {}), f)
        ELSE Step(Return(Did(cr, "readdir", pluginsDir),
                         {PathBasename(p) : p \in FilesIn(f, pluginsDir)}), f)

\* installPlugin after ensurePluginsDir: the name, the checks of the
\* destination and the call of fsProm.copyFile
installPluginCheck(cr, f) ==
    LET pluginsDir == getPluginsDir(drawioDir)
        pluginName == sanitizeFilename(PathBasename(cr.args.path))
        dstFile    == PathJoin(pluginsDir, pluginName)
        c1         == [Did(cr, "exists", dstFile) EXCEPT !.dstFile = dstFile]
    IN  IF ExistsSync(f, dstFile) THEN Step(Throw(c1, "PLUGIN_EXISTS"), f)
        ELSE IF ~StartsWith(dstFile, pluginsDir)
        THEN Step(Throw(c1, "SECURITY_VIOLATION"), f)
        ELSE Step(Goto(c1, "copy"), f)

\* installPlugin(filePath, appDataFolder) up to its first await that waits
\* for the disk: the mkdir of ensurePluginsDir or the copy
installPluginEnter(cr, f, t, enabled) ==
    LET c1 == Did(cr, "exists", cr.args.path)
    IN  IF ~enabled THEN Step(Throw(cr, "SECURITY_VIOLATION"), f)
        ELSE IF ~ExistsSync(f, cr.args.path) THEN Step(Throw(c1, "FILE_NOT_FOUND"), f)
        ELSE IF ~isOutsideAppDir(cr.args.path)
        THEN Step(Throw(c1, "SECURITY_VIOLATION"), f)
        ELSE IF ~ExistsSync(f, getPluginsDir(drawioDir))
        THEN Step(Goto(c1, "mkdir"), f)
        ELSE installPluginCheck(c1, f)

\* await fsProm.mkdir(pluginsDir, { recursive: true }), and the rest of
\* installPlugin up to the call of fsProm.copyFile
installPluginMkdir(cr, f, t) ==
    LET pluginsDir == getPluginsDir(drawioDir)
    IN  installPluginCheck(Did(cr, "mkdir", pluginsDir),
                           IF ExistsSync(f, pluginsDir) THEN f
                           ELSE FsPut(f, pluginsDir, FileRec(<<>>, t)))

\* await fsProm.copyFile(filePath, dstFile), which replaces dstFile
installPluginCopy(cr, f, t) ==
    LET dstFile == cr.dstFile
        c1      == Did(cr, "copy", dstFile)
    IN  IF ~ExistsSync(f, cr.args.path) THEN Step(Throw(c1, "INSTALL_FAILED"), f)
        ELSE Step(Return(c1, [pluginName |-> PathBasename(dstFile),
                              selDir |-> PathDirname(cr.args.path)]),
                  FsPut(f, dstFile, FileRec(f[FsKey(cr.args.path)].data, t)))

(***************************************************************************)
(* The file store: drafts, deletion and the operations that look at a      *)
(* path (SpecStore).                                                       *)
(***************************************************************************)
MaxDrafts == 2      \* drafts of one kind beside a file at the start

EmptyFile == <<"/", "h", "/", "e">>

\* the content of the n-th draft and of the n-th legacy draft
DraftData(n)    == <<123, 48 + n, 125>>
OldDraftData(n) == <<91, 48 + n, 93>>

\* InitialDisk and an empty file, with the first k drafts and the first m
\* legacy drafts beside filePath
RECURSIVE WithDrafts(_, _, _, _)
WithDrafts(f, filePath, k, m) ==
    IF k > 0
    THEN WithDrafts(FsPut(f, DraftPath(filePath, k - 1),
                          FileRec(DraftData(k - 1), 0)), filePath, k - 1, m)
    ELSE IF m > 0
    THEN WithDrafts(FsPut(f, OldDraftPath(filePath, m - 1),
                          FileRec(OldDraftData(m - 1), 0)), filePath, k, m - 1)
    ELSE f

StoreDisks ==
    {WithDrafts(FsPut(FsDel(InitialDisk, DraftPath(HomeFile, 0)), EmptyFile,
                      FileRec(<<>>, 0)), HomeFile, k, m) :
        k \in 0..MaxDrafts, m \in 0..MaxDrafts}

StorePlans ==
    { <<"getFileDrafts">>, <<"deleteFile">>, <<"fileStat">>, <<"isFileWritable">>,
      <<"checkFileExists">>, <<"watchFile">>, <<"readFile">> }

StorePaths == {HomeFile, NewFile, AppFile, EmptyFile}

\* what Buffer.allocUnsafe(16) may hold: zeroes, or what an earlier buffer
\* of the pool left there
JunkSamples == {Repeat(0, 16), Utf8Encode(XmlData) \o Repeat(0, 12)}

InitStore ==
    /\ now = 0
    /\ fs \in StoreDisks
    /\ call = [c \in Callers |-> NoCall]
    /\ prev = [c \in Callers |-> NoCall]
    /\ nExt = 0
    /\ doc \in [path : StorePaths, data : {XmlData}, enc : {Undefined}]
    /\ \E pl \in StorePlans : todo = [c \in Callers |-> IF c = 1 THEN pl ELSE <<>>]
    /\ InitDispatcher(<<>>, 0, 0)
    /\ InitServices

\* caller c invokes op on its document's path
StartPathOp(c, op) ==
    NewCall(op, [NoArgs EXCEPT !.path = doc.path], fs)

\* caller c's call op takes the turn at pc
Turn(c, op, pc, r) ==
    /\ AtTurn(c, op, pc)
    /\ Advance(c, r)
    /\ UNCHANGED <<now, prev, todo, nExt, doc, ipcVars, svcVars>>

StartGetFileDrafts(c) ==
    /\ MayInvoke(c, "getFileDrafts")
    /\ Advance(c, getFileDraftsEnter(StartPathOp(c, "getFileDrafts"), fs, now))
    /\ Invoked(c)

GetFileDraftsRename(c) ==
    Turn(c, "getFileDrafts", "draftsRename", getFileDraftsRename(call[c], fs, now))

GetFileDraftsStat(c) ==
    Turn(c, "getFileDrafts", "draftsStat", getFileDraftsStat(call[c], fs, now))

GetFileDraftsRead(c) ==
    Turn(c, "getFileDrafts", "draftsRead", getFileDraftsRead(call[c], fs, now))

StartFileStat(c) ==
    /\ MayInvoke(c, "fileStat")
    /\ Advance(c, fileStatEnter(StartPathOp(c, "fileStat"), fs, now))
    /\ Invoked(c)

FileStatStat(c) == Turn(c, "fileStat", "stat", fileStatStat(call[c], fs, now))

StartIsFileWritable(c) ==
    /\ MayInvoke(c, "isFileWritable")
    /\ Advance(c, isFileWritableEnter(StartPathOp(c, "isFileWritable"), fs, now))
    /\ Invoked(c)

IsFileWritableAccess(c) ==
    Turn(c, "isFileWritable", "access", isFileWritableAccess(call[c], fs, now))

CheckFileExists(c) ==
    /\ MayInvoke(c, "checkFileExists")
    /\ Advance(c, checkFileExists(StartPathOp(c, "checkFileExists"), fs, now))
    /\ Invoked(c)

WatchFile(c) ==
    /\ MayInvoke(c, "watchFile")
    /\ \E win \in BOOLEAN :
          Advance(c, watchFile(StartPathOp(c, "watchFile"), fs, now, win))
    /\ Invoked(c)

StartDeleteFile(c) ==
    /\ MayInvoke(c, "deleteFile")
    /\ Advance(c, deleteFileEnter(StartPathOp(c, "deleteFile"), fs, now))
    /\ Invoked(c)

DeleteFileOpen(c) == Turn(c, "deleteFile", "delOpen", deleteFileOpen(call[c], fs, now))

DeleteFileRead(c) ==
    \E junk \in JunkSamples :
        Turn(c, "deleteFile", "delRead", deleteFileRead(call[c], fs, now, junk))

DeleteFileClose(c) ==
    Turn(c, "deleteFile", "delClose", deleteFileClose(call[c], fs, now))

DeleteFileUnlink(c) ==
    Turn(c, "deleteFile", "delUnlink", deleteFileUnlink(call[c], fs, now))

\* another program removes a draft of the callers' file, or the file
ExternalUnlink ==
    /\ nExt < MaxExt
    /\ \E p \in {doc.path, DraftPath(doc.path, 0), DraftPath(doc.path, 1),
                  OldDraftPath(doc.path, 0)} :
          /\ ExistsSync(fs, p)
          /\ fs' = FsDel(fs, p)
    /\ call' = [c \in Callers |->
                  IF call[c].pc # "idle" THEN [call[c] EXCEPT !.disturbed = TRUE]
                  ELSE call[c]]
    /\ nExt' = nExt + 1
    /\ UNCHANGED <<now, prev, todo, doc, ipcVars, svcVars>>

NextStore ==
    \/ StartGetFileDrafts(1)
    \/ GetFileDraftsRename(1)
    \/ GetFileDraftsStat(1)
    \/ GetFileDraftsRead(1)
    \/ StartFileStat(1)
    \/ FileStatStat(1)
    \/ StartIsFileWritable(1)
    \/ IsFileWritableAccess(1)
    \/ CheckFileExists(1)
    \/ WatchFile(1)
    \/ StartDeleteFile(1)
    \/ DeleteFileOpen(1)
    \/ DeleteFileRead(1)
    \/ DeleteFileClose(1)
    \/ DeleteFileUnlink(1)
    \/ StartReadFile(1)
    \/ ReadFileRead(1)
    \/ ExternalUnlink
    \/ Tick

SpecStore == InitStore /\ [][NextStore]_vars

(***************************************************************************)
(* The dispatcher: renderer pages send 'rendererReq' messages, the         *)
(* listener handles each, and the file store works on behalf of the        *)
(* requests that reach it.                                                 *)
(***************************************************************************)
\* the sender frames: a page of the web application, a foreign page, no frame
TrustedFrame == Frame(codeUrl \o <<"/", "i">>)
ForeignFrame == Frame(<<"h", "t", "t", "p", "s", ":", "/", "/", "e", "/">>)
Frames == {TrustedFrame, ForeignFrame, Null}

\* the action names a page may send: those of the switch, and two others
ActionNames == DOMAIN ROUTES \cup {"listPlugins", "format"}

\* the documents of the pages
IpcDocs ==
    { [path |-> HomeFile, data |-> XmlData, enc |-> Undefined],
      [path |-> AppFile, data |-> XmlData, enc |-> Undefined] }

\* the requests the trusted page has made before, all of them a millisecond
\* less than a limiter window before time 0
PriorCalls == {0, maxCalls - 1, maxCalls}

InitIPC ==
    /\ now = 0
    /\ fs = InitialDisk
    /\ call = [c \in Callers |-> NoCall]
    /\ prev = [c \in Callers |-> NoCall]
    /\ todo = [c \in Callers |-> <<>>]
    /\ nExt = 0
    /\ doc \in IpcDocs
    /\ \E prior \in PriorCalls : InitDispatcher(TrustedFrame.url, prior, 1 - windowMs)
    /\ InitServices

\* the arguments of a request for the document of the page
ArgsOf(reqId, action, ow) ==
    [reqId |-> reqId, action |-> action, path |-> doc.path, data |-> doc.data,
     enc |-> doc.enc, origStat |-> Null, overwrite |-> ow]

\* the callers that await no target
Free == {c \in Callers : reqs[c].stage = "idle"}

\* the listener's first turn gave h: it has replied, or caller c awaits the
\* target
Receive(c, h) ==
    /\ rateLimiter' = h.limiter
    /\ reached' = h.reached
    /\ IF h.req.stage = "await"
       THEN /\ reqs' = [reqs EXCEPT ![c] = h.req]
            /\ Advance(c, [call |-> h.call, fs |-> h.fs])
            /\ UNCHANGED <<last, nResp>>
       ELSE /\ last' = h.req
            /\ nResp' = nResp + Len(h.req.out)
            /\ Advance(c, [call |-> NoCall, fs |-> h.fs])
            /\ UNCHANGED reqs

\* a 'rendererReq' arrives and the listener runs up to its first await, for
\* the first free caller
RendererReq ==
    /\ nReq < MaxReq
    /\ Free # {}
    /\ \E frame \in Frames, action \in ActionNames :
       \E ow \in (IF action = "saveFile" THEN BOOLEAN ELSE {FALSE}) :
       \E ok \in (IF action \in DOMAIN ROUTES
                     /\ ROUTES[action] \notin FileTargets \cup AwaitedTargets
                  THEN BOOLEAN ELSE {TRUE}) :
          Receive(CHOOSE k \in Free : \A m \in Free : k <= m,
                  rendererReq(frame, ArgsOf(nReq + 1, action, ow), rateLimiter,
                              reached, fs, now, ok))
    /\ nReq' = nReq + 1
    /\ UNCHANGED <<now, prev, todo, nExt, doc, svcVars>>

\* the replies of the listener once the target of request rq has settled:
\* to the outcome cr of the call of the file store, or to the outcome ok of
\* a target the model does not follow
SettledResp(rq, cr, ok) ==
    IF rq.target \in FileTargets THEN CallResp(cr, rq.args)
    ELSE IF ok THEN ResultResp(ResultOf(rq.target), rq.args)
    ELSE CaughtResp(Error(<<"Error">>, ""), rq.args)

\* the listener sends out for the request that caller c awaited
Replied(c, out) ==
    /\ last' = [reqs[c] EXCEPT !.stage = "done", !.out = out]
    /\ nResp' = nResp + Len(out)
    /\ reqs' = [reqs EXCEPT ![c] = NoReq]
    /\ call' = [call EXCEPT ![c] = NoCall]

\* the target of the request that caller c awaits settles, the listener
\* replies, and the caller is free again
MainResp(c) ==
    /\ reqs[c].stage = "await"
    /\ reqs[c].target \in FileTargets => Finished(call[c])
    /\ \E ok \in (IF reqs[c].target \in FileTargets THEN {TRUE} ELSE BOOLEAN) :
          Replied(c, SettledResp(reqs[c], call[c], ok))
    /\ UNCHANGED <<now, fs, prev, todo, nExt, doc, rateLimiter, reached, nReq, svcVars>>

NextIPC ==
    \/ RendererReq
    \/ \E c \in Callers :
          \/ MainResp(c)
          \/ SaveFileStat(c)
          \/ SaveFileBkpRead(c)
          \/ SaveFileBkpOpen(c)
          \/ SaveFileBkpWrite(c)
          \/ SaveFileOpen(c)
          \/ SaveFileWrite(c)
          \/ SaveFileVerify(c)
          \/ WriteFileOpen(c)
          \/ WriteFileWrite(c)
          \/ SaveDraftWrite(c)
          \/ ReadFileRead(c)
    \/ Tick

SpecIPC == InitIPC /\ [][NextIPC]_vars

(***************************************************************************)
(* Properties of the file store (Spec).                                    *)
(***************************************************************************)
\* the validations of the head of saveFile and writeFile, on the call's
\* arguments and the disk it started on
PathOk(cr) == isOutsideAppDir(cr.args.path)
ContentOk(cr) ==
    /\ checkFileContent(Str(cr.args.data),
                        IF cr.op = "writeFile" THEN cr.args.enc ELSE Undefined)
    /\ validateFileContent(cr.args.data)
SizeOk(cr) == validateFileSize(cr.fs0, cr.args.path)

Raised(cr, code) == Finished(cr) /\ cr.status = "error" /\ cr.code = code
Returned(cr)     == Finished(cr) /\ cr.status = "ok"

\* the call wrote nothing, and the disk is as it was when the call started
\* unless another program wrote since
WroteNothing(cr) == Mutations(cr) = <<>> /\ (~cr.disturbed => fs = cr.fs0)

\* cr is a finished saveFile with overwrite=false whose prior stat is not
\* null and differs in mtimeMs from the existing target, which no other
\* program wrote while the call ran
StaleSave(cr) ==
    /\ Finished(cr) /\ cr.op = "saveFile"
    /\ ~cr.args.overwrite /\ cr.args.origStat # Null
    /\ ExistsSync(cr.fs0, cr.args.path)
    /\ cr.fs0[FsKey(cr.args.path)].mtime # cr.args.origStat.mtimeMs
    /\ ~cr.disturbed

\* C5 as stated: every saveFile with overwrite=false and a non-null prior
\* stat whose mtimeMs differs from that of the existing target raises
\* FILE_CONFLICT, and the target is unchanged and no backup is written.
C5_StaleSaveConflicts ==
    \A c \in Callers :
        StaleSave(call[c]) =>
            Raised(call[c], "FILE_CONFLICT") /\ WroteNothing(call[c])

\* C5, amended: a saveFile with overwrite=false and a stale non-null prior
\* stat that passes the path, content and size validations raises
\* FILE_CONFLICT, and the target is unchanged and no backup is written.
C5_ValidStaleSaveConflicts ==
    \A c \in Callers :
        StaleSave(call[c]) /\ PathOk(call[c]) /\ ContentOk(call[c]) /\ SizeOk(call[c]) =>
            Raised(call[c], "FILE_CONFLICT") /\ WroteNothing(call[c])

\* a stale save of valid content was refused as a conflict
C5_Witness ==
    /\ StaleSave(call[1]) /\ PathOk(call[1]) /\ ContentOk(call[1]) /\ SizeOk(call[1])
    /\ Raised(call[1], "FILE_CONFLICT")
    /\ call[1].args.origStat.mtimeMs = 1
    /\ ExistsSync(fs, bkpPath(call[1].args.path)) = FALSE

\* C6: saveFile returns a stat only if the read-back after its last write
\* attempt equals the data to save; a saveFile whose last read-back differs
\* raises an error.
C6_SuccessOnlyIfReadBackEqual ==
    \A c \in Callers :
        LET cr == call[c] IN
        (Finished(cr) /\ cr.op = "saveFile") =>
            /\ cr.status = "ok" => cr.writtenData = Str(cr.args.data)
            /\ (cr.writtenData # Null /\ cr.writtenData # Str(cr.args.data)) =>
                   cr.status = "error"

\* a saveFile returned after a read-back that differed and a second attempt
\* whose read-back was equal
C6_Witness ==
    /\ Returned(call[1]) /\ call[1].op = "saveFile"
    /\ call[1].retryCount = 1
    /\ call[1].writtenData = Str(call[1].args.data)

\* the close of the backup comes before the first open of the target
BackupBeforeTarget(cr) ==
    \E i \in 1..Len(cr.trace) :
        /\ cr.trace[i] = [op |-> "close", path |-> FsKey(bkpPath(cr.args.path))]
        /\ \A j \in 1..Len(cr.trace) :
               cr.trace[j] = [op |-> "open", path |-> FsKey(cr.args.path)] => i < j

\* C7: after a successful saveFile on a file that existed, with backups
\* enabled and whatever the overwrite flag, the backup sibling
\* '.$<basename>.bkp' holds the target's content of before the save, and its
\* write finished before the target was opened.
C7_BackupOnEverySave ==
    \A c \in Callers :
        LET cr == call[c] IN
        (/\ Returned(cr) /\ cr.op = "saveFile"
         /\ ExistsSync(cr.fs0, cr.args.path)
         /\ cr.args.enableStoreBkp
         /\ ~cr.disturbed) =>
            /\ ExistsSync(fs, bkpPath(cr.args.path))
            /\ fs[FsKey(bkpPath(cr.args.path))].data = cr.fs0[FsKey(cr.args.path)].data
            /\ BackupBeforeTarget(cr)

\* cr is a finished saveFile or writeFile
SaveOrWrite(cr) == Finished(cr) /\ cr.op \in {"saveFile", "writeFile"}

\* C8 as stated: each failed validation of saveFile and writeFile raises its
\* own error (path: SECURITY_VIOLATION, content: FILE_INVALID, size:
\* FILE_TOO_LARGE), and nothing is written.
C8_EachFailureItsError ==
    \A c \in Callers :
        LET cr == call[c] IN
        SaveOrWrite(cr) =>
            /\ ~PathOk(cr) => Raised(cr, "SECURITY_VIOLATION") /\ WroteNothing(cr)
            /\ ~ContentOk(cr) => Raised(cr, "FILE_INVALID") /\ WroteNothing(cr)
            /\ ~SizeOk(cr) => Raised(cr, "FILE_TOO_LARGE") /\ WroteNothing(cr)

\* C8, amended: a saveFile or writeFile that fails a validation raises the
\* error of the first validation it fails, in the order path
\* (SECURITY_VIOLATION), content (FILE_INVALID), size (FILE_TOO_LARGE), and
\* writes nothing.
C8_FirstFailureItsError ==
    \A c \in Callers :
        LET cr == call[c] IN
        SaveOrWrite(cr) =>
            /\ ~PathOk(cr) => Raised(cr, "SECURITY_VIOLATION") /\ WroteNothing(cr)
            /\ (PathOk(cr) /\ ~ContentOk(cr)) =>
                   Raised(cr, "FILE_INVALID") /\ WroteNothing(cr)
            /\ (PathOk(cr) /\ ContentOk(cr) /\ ~SizeOk(cr)) =>
                   Raised(cr, "FILE_TOO_LARGE") /\ WroteNothing(cr)

\* a saveFile of valid content to a target over the size cap was refused
C8_Witness ==
    /\ call[1].op = "saveFile" /\ Raised(call[1], "FILE_TOO_LARGE")
    /\ PathOk(call[1]) /\ ContentOk(call[1]) /\ ~SizeOk(call[1])
    /\ call[1].args.overwrite

\* what readFile returned is the content data: the string itself, or the
\* bytes of the string when no encoding was given
SameContent(value, data) ==
    IF value.kind = "string" THEN value.v = data
    ELSE value.kind = "buffer" /\ value.v = Utf8Encode(data)

\* C9: after a successful saveFile(path, content, null, false) to a path
\* outside the application directory that did not exist, readFile(path) with
\* the encoding of the save returns the content that was saved.
C9_RoundTrip ==
    \A c \in Callers :
        LET r == call[c]
            s == prev[c]
        IN  (/\ Finished(r) /\ r.op = "readFile"
             /\ Returned(s) /\ s.op = "saveFile"
             /\ ~ExistsSync(s.fs0, s.args.path) /\ isOutsideAppDir(s.args.path)
             /\ s.args.origStat = Null /\ ~s.args.overwrite
             /\ r.args.path = s.args.path /\ r.args.enc = s.args.foEnc
             /\ nExt = 0) =>
                Returned(r) /\ SameContent(r.value, s.args.data)

\* the draft siblings of filePath: '.$<basename>.dtmp', '.$<basename>_1.dtmp', ...
DraftNames(filePath) == {DraftPath(filePath, n) : n \in 0..3}

\* C10: two saveDraft calls for the same file, one after the other and
\* without a draft name from the caller, return two distinct paths of the
\* form '.$<basename>.dtmp', '.$<basename>_1.dtmp', ..., and both files exist.
C10_TwoDraftsDistinct ==
    \A c \in Callers :
        LET r == call[c]
            s == prev[c]
        IN  (/\ Returned(r) /\ r.op = "saveDraft"
             /\ Returned(s) /\ s.op = "saveDraft"
             /\ r.args.path = s.args.path
             /\ r.args.draftFileName = Undefined
             /\ s.args.draftFileName = Undefined) =>
                /\ r.value # s.value
                /\ r.value \in DraftNames(r.args.path)
                /\ s.value \in DraftNames(r.args.path)
                /\ ExistsSync(fs, r.value) /\ ExistsSync(fs, s.value)

\* two drafts were saved beside a file that already had a first draft
C10_Witness ==
    /\ Returned(call[1]) /\ call[1].op = "saveDraft"
    /\ Returned(prev[1]) /\ prev[1].op = "saveDraft"
    /\ call[1].args.draftFileName = Undefined
    /\ prev[1].args.draftFileName = Undefined
    /\ prev[1].value = DraftPath(doc.path, 1)
    /\ call[1].value = DraftPath(doc.path, 2)

(***************************************************************************)
(* Properties of the dispatcher (SpecIPC).                                 *)
(***************************************************************************)
\* the callers that await the target of a request
Awaiting == {c \in Callers : reqs[c].stage = "await"}

\* C1: every 'rendererReq' gets exactly one 'mainResp', with its reqId,
\* whatever the outcome: a request whose listener has finished has one reply
\* carrying its reqId, a request whose target is awaited has none yet, and
\* as many replies were sent as requests are not awaited.
C1_ExactlyOneReply ==
    /\ last.stage = "done" =>
          Len(last.out) = 1 /\ last.out[1].reqId = last.args.reqId
    /\ \A c \in Awaiting : reqs[c].out = <<>>
    /\ nResp = nReq - Cardinality(Awaiting)

\* the first of two requests was answered after the second, with the stat
\* of its save
C1_Witness ==
    /\ nReq = 2 /\ nResp = 2
    /\ last.args.reqId = 1
    /\ last.target = "FileService.saveFile"
    /\ last.out = <<SuccessResp(last.out[1].data, 1)>>

\* the request received last, in the step that receives it
Newest ==
    IF last.args.reqId = nReq THEN last
    ELSE reqs[CHOOSE c \in Callers : reqs[c].args.reqId = nReq]

\* the frame's URL begins with the trusted content URL
PrefixMatches(frame) == frame # Null /\ StartsWith(frame.url, codeUrl)

\* C2: a step that receives a request whose sender frame URL does not
\* prefix-match the trusted content URL sends the 'Invalid sender' error
\* reply and changes nothing else: not the rate limiter, not the entries of
\* handleAction, not the disk, no call of the file store, whatever the action.
C2_InvalidSenderStep ==
    (nReq' = nReq + 1 /\ ~PrefixMatches(Newest'.frame)) =>
        /\ Newest'.out = <<ErrorResp(<<"Invalid sender">>, "", nReq')>>
        /\ Newest'.stage = "done" /\ Newest'.target = Undefined
        /\ nResp' = nResp + 1
        /\ UNCHANGED <<rateLimiter, reached, fs, call, reqs>>

C2_InvalidSenderOnlyReply == [][C2_InvalidSenderStep]_vars

\* a saveFile request of a foreign page was refused and the folder that
\* handleAction creates is not there
C2_Witness ==
    /\ nReq = 1
    /\ last.frame = ForeignFrame /\ last.args.action = "saveFile"
    /\ last.out = <<ErrorResp(<<"Invalid sender">>, "", 1)>>
    /\ ~ExistsSync(fs, drawioDir)

\* Of the entries of handleAction for one sender URL, at most maxCalls lie
\* in any window of windowMs milliseconds: the entries are logged in the
\* order of time, and the entry maxCalls places after another is windowMs
\* milliseconds later or more.
C3_Window ==
    \A key \in DOMAIN reached :
        /\ \A i \in 1..(Len(reached[key]) - 1) :
              reached[key][i] <= reached[key][i + 1]
        /\ \A i \in 1..(Len(reached[key]) - maxCalls) :
              reached[key][i + maxCalls] >= reached[key][i] + windowMs

\* C3: a step that receives a request of a valid sender for which
\* canProceed is false sends the rate-limit error reply and dispatches no
\* target; so after every step at most 100 requests of one sender URL have
\* reached handleAction in any window of 60000 ms.
C3_RefusedStep ==
    /\ (nReq' = nReq + 1 /\ Newest'.valid /\ ~Newest'.proceed) =>
          /\ Newest'.out = <<ErrorResp(<<"Rate limit exceeded">>, "", nReq')>>
          /\ Newest'.stage = "done" /\ Newest'.target = Undefined
          /\ UNCHANGED <<reached, fs, call, reqs>>
    /\ C3_Window'

C3_RateLimited == [][C3_RefusedStep]_vars

\* the hundred-and-first request of the trusted page within a window was
\* refused
C3_Witness ==
    /\ last.valid /\ ~last.proceed
    /\ last.args.action = "saveFile"
    /\ last.out = <<ErrorResp(<<"Rate limit exceeded">>, "", last.args.reqId)>>
    /\ Len(reached[TrustedFrame.url]) = maxCalls

\* the requests that reached handleAction and are still known
Dispatched == {rq \in {last} \cup {reqs[c] : c \in Callers} : rq.proceed}

\* the reply of the catch block to the default of the switch
UnknownActionOut(rq) ==
    CaughtResp(Error(<<"Unknown action: ", rq.args.action>>, ""), rq.args)

\* rq's action selected a target: rq is awaiting it or was answered with
\* its outcome
Routed(rq) == rq.target # Undefined /\ rq.out # UnknownActionOut(rq)

\* rq ended in the 'unknown action' error reply and selected no target
Unrouted(rq) ==
    rq.target = Undefined /\ rq.stage = "done" /\ rq.out = UnknownActionOut(rq)

\* the action set as the claim enumerates it, 'listPlugins' for plugin list
ListedActions ==
    {"saveFile", "writeFile", "readFile", "deleteFile", "fileStat", "isFileWritable",
     "checkFileExists", "showOpenDialog", "showSaveDialog", "installPlugin",
     "uninstallPlugin", "getPluginFile", "listPlugins", "isPluginsEnabled",
     "clipboardAction", "windowAction", "openExternal", "watchFile", "unwatchFile",
     "getDocumentsFolder", "dirname", "exit", "isFullscreen"}

\* the action set of the switch
SwitchActions ==
    (ListedActions \ {"listPlugins"}) \cup {"saveDraft", "getFileDrafts"}

\* C4 as stated: every action name of the enumerated set (file save, write,
\* read, delete, stat, writable, exists; open and save dialog; plugin
\* install, uninstall, get, list, enabled; clipboard; window; open external;
\* watch, unwatch; documents folder; dirname; exit; is-fullscreen) selects a
\* target, and every other name ends in the 'unknown action' error reply.
C4_RoutingAsListed ==
    \A rq \in Dispatched :
        IF rq.args.action \in ListedActions THEN Routed(rq) ELSE Unrouted(rq)

\* C4, amended: every action name of the switch, which has saveDraft and
\* getFileDrafts and has no action that lists plugins, selects its one
\* target, and every other name ends in the 'unknown action' error reply.
C4_RoutingOfSwitch ==
    \A rq \in Dispatched :
        IF rq.args.action \in SwitchActions
        THEN Routed(rq) /\ rq.target = ROUTES[rq.args.action]
        ELSE Unrouted(rq)

\* a request to list the plugins ended in the 'unknown action' error reply
C4_Witness ==
    /\ last.proceed /\ last.args.action = "listPlugins"
    /\ Unrouted(last)

(***************************************************************************)
(* The plugin service used by two callers (SpecPlugins).                   *)
(***************************************************************************)
\* Two plugin sources of the same name and different content, one inside the
\* application directory, and a path with '..' segments that resolves to
\* the first; every directory that a path names exists.
PluginA   == <<"/", "h", "/", "p">>
PluginB   == <<"/", "t", "/", "p">>
PluginApp == <<"/", "a", "/", "p">>
PluginTraversal == <<"/", "t", "/", "e", "/", ".", ".", "/", ".", ".", "/", "h", "/", "p">>
PluginMissing   == <<"/", "h", "/", "m">>
PluginSources == {PluginA, PluginB, PluginApp, PluginTraversal, PluginMissing}

\* the plugin names a page asks for
PluginNames == {<<"p">>, <<"/", "p">>, <<".", ".">>}

InstalledP == PathJoin(getPluginsDir(drawioDir), <<"p">>)

\* the disk before the first install, and with a plugin 'p' installed
PluginDiskEmpty ==
    (PluginA :> FileRec(<<1>>, 0)) @@ (PluginB :> FileRec(<<2>>, 0))
      @@ (PluginApp :> FileRec(<<3>>, 0)) @@ (drawioDir :> FileRec(<<>>, 0))

PluginDisks ==
    {PluginDiskEmpty,
     FsPut(FsPut(PluginDiskEmpty, getPluginsDir(drawioDir), FileRec(<<>>, 0)),
           InstalledP, FileRec(<<9>>, 0))}

PluginPlans ==
    { <<"installPlugin">>, <<"uninstallPlugin">>, <<"getPluginFile">>,
      <<"listPlugins">>, <<"installPlugin", "listPlugins">> }

\* the state after the application has started: setPluginsEnabled was called
\* with the option of the command line
InitPlugins ==
    /\ now = 0
    /\ fs \in PluginDisks
    /\ call = [c \in Callers |-> NoCall]
    /\ prev = [c \in Callers |-> NoCall]
    /\ nExt = 0
    /\ doc = [path |-> PluginA, data |-> XmlData, enc |-> Undefined]
    /\ \E pl \in PluginPlans, p2 \in {<<>>, <<"installPlugin">>} :
          todo = [c \in Callers |-> IF c = 1 THEN pl ELSE p2]
    /\ InitDispatcher(<<>>, 0, 0)
    /\ pluginsEnabled \in BOOLEAN
    /\ InitExport

StartInstallPlugin(c) ==
    /\ MayInvoke(c, "installPlugin")
    /\ \E src \in PluginSources :
          Advance(c, installPluginEnter(
              NewCall("installPlugin", [NoArgs EXCEPT !.path = src], fs),
              fs, now, pluginsEnabled))
    /\ Invoked(c)

InstallPluginMkdir(c) ==
    Turn(c, "installPlugin", "mkdir", installPluginMkdir(call[c], fs, now))

InstallPluginCopy(c) ==
    Turn(c, "installPlugin", "copy", installPluginCopy(call[c], fs, now))

\* caller c invokes the plugin operation op, that does not wait, with the
\* result r of running it
PluginOp(c, op, r(_)) ==
    /\ MayInvoke(c, op)
    /\ \E plugin \in PluginNames :
          Advance(c, r(NewCall(op, [NoArgs EXCEPT !.plugin = plugin], fs)))
    /\ Invoked(c)

UninstallPlugin(c) ==
    PluginOp(c, "uninstallPlugin",
             LAMBDA cr : uninstallPlugin(cr, fs, now, pluginsEnabled))

GetPluginFile(c) ==
    PluginOp(c, "getPluginFile",
             LAMBDA cr : getPluginFileCall(cr, fs, now, pluginsEnabled))

ListPlugins(c) ==
    PluginOp(c, "listPlugins", LAMBDA cr : listPlugins(cr, fs, now, pluginsEnabled))

NextPlugins ==
    \/ \E c \in Callers :
          \/ StartInstallPlugin(c)
          \/ InstallPluginMkdir(c)
          \/ InstallPluginCopy(c)
          \/ UninstallPlugin(c)
          \/ GetPluginFile(c)
          \/ ListPlugins(c)
    \/ Tick

SpecPlugins == InitPlugins /\ [][NextPlugins]_vars

(***************************************************************************)
(* Properties of drafts.                                                   *)
(***************************************************************************)
EndsWith(s, suffix) ==
    /\ Len(suffix) <= Len(s)
    /\ SubSeq(s, Len(s) - Len(suffix) + 1, Len(s)) = suffix

\* p names a draft: '.$<basename>[_n].dtmp'
IsDraftName(p) ==
    /\ StartsWith(PathBasename(p), DRAFT_PREFEX)
    /\ EndsWith(PathBasename(p), DRAFT_EXT)

\* the drafts on disk f, with their content
DraftsOn(f) == {p \in DOMAIN f : IsDraftName(p)}

\* a step in which a saveDraft call writes leaves every draft that existed
\* before the step with the content it had
C11_DraftWriteStep ==
    \A c \in Callers :
        (AtTurn(c, "saveDraft", "draftWrite") /\ call'[c].pc = "done") =>
            \A p \in DraftsOn(fs) : p \in DOMAIN fs' /\ fs'[p].data = fs[p].data

\* C11: no saveDraft call, whatever file handle it is given (a handle that
\* carries draftFileName included), changes the content of a draft file that
\* already exists.
C11_DraftNeverMutated == [][C11_DraftWriteStep]_vars

\* the set of the elements of a sequence
Range(sq) == {sq[k] : k \in 1..Len(sq)}

\* the new names of the legacy drafts of filePath that an enumeration on
\* disk f migrates: those numbered from 0 up to the first gap
MigratedDrafts(f, filePath) ==
    {DraftPath(filePath, n) : n \in
        {k \in 0..MaxDrafts : \A j \in 0..k : ExistsSync(f, OldDraftPath(filePath, j))}}

\* C12: a getFileDrafts call that no other program disturbed returns a
\* record for every current-format draft found by probing the suffixes '',
\* '_1', '_2', ... up to the first gap, the unsuffixed draft included, and
\* for every legacy draft it migrated.
C12_EveryDraftReturned ==
    \A c \in Callers :
        LET cr == call[c]
        IN  (cr.op = "getFileDrafts" /\ Returned(cr) /\ ~cr.disturbed) =>
               Range(ProbedDrafts(cr.fs0, cr.args.path, 0))
                 \cup MigratedDrafts(cr.fs0, cr.args.path)
                   \subseteq {d.path : d \in Range(cr.value)}

(***************************************************************************)
(* Properties of the operations that are given a path (SpecStore).         *)
(***************************************************************************)
\* the operations of the dispatcher that touch a file path and that
\* SpecStore runs
PathOps ==
    {"getFileDrafts", "readFile", "deleteFile", "fileStat", "isFileWritable",
     "checkFileExists", "watchFile"}

\* C13: every dispatcher action that touches a file path rejects a path
\* inside the application directory and performs no filesystem access on it:
\* a call with such a path has performed no filesystem operation and, once
\* it has ended, has raised an error.
C13_AppDirPathRejected ==
    \A c \in Callers :
        LET cr == call[c]
        IN  (cr.op \in PathOps /\ ~isOutsideAppDir(cr.args.path)) =>
               /\ cr.trace = <<>>
               /\ Finished(cr) => cr.status = "error"

\* file p of disk f has leading bytes that pass checkFileContent
HeaderOk(f, p) == checkFileContent(Buf(Prefix(f[FsKey(p)].data, 16)), Undefined)

\* C14: readFile never returns content for which checkFileContent is false,
\* and a deleteFile of a file whose leading bytes fail checkFileContent or
\* whose path is inside the application directory raises SECURITY_VIOLATION
\* and leaves the file as it was (no other program having touched it).
C14_FailClosed ==
    \A c \in Callers :
        LET cr == call[c]
            p  == cr.args.path
        IN  /\ (cr.op = "readFile" /\ Returned(cr)) =>
                  checkFileContent(cr.value, cr.args.enc)
            /\ (/\ cr.op = "deleteFile" /\ Finished(cr) /\ ~cr.disturbed
                /\ ExistsSync(cr.fs0, p)
                /\ (~HeaderOk(cr.fs0, p) \/ ~isOutsideAppDir(p))) =>
                  /\ Raised(cr, "SECURITY_VIOLATION")
                  /\ ExistsSync(fs, p) /\ fs[FsKey(p)] = cr.fs0[FsKey(p)]

(***************************************************************************)
(* Properties of the plugin service (SpecPlugins).                         *)
(***************************************************************************)
\* the plugins directory of disk f and what is in it
PluginEntries(f) ==
    [p \in {q \in DOMAIN f : StartsWith(q, getPluginsDir(drawioDir))} |-> f[p]]

\* what a plugin call that has ended gave, while plugins are disabled
DisabledOutcome(cr) ==
    /\ cr.op = "installPlugin" =>
          Raised(cr, "SECURITY_VIOLATION") /\ Mutations(cr) = <<>>
    /\ cr.op = "getPluginFile" => Returned(cr) /\ cr.value = Null
    /\ cr.op = "listPlugins" => Returned(cr) /\ cr.value = {}
    /\ cr.op = "uninstallPlugin" => Returned(cr) /\ Mutations(cr) = <<>>

\* C15: while the plugins-enabled flag is false, installPlugin raises and
\* copies nothing, getPluginFile returns null, listPlugins returns the empty
\* list, and no step of a plugin operation creates, changes or removes a
\* file in the plugins directory.
C15_DisabledStep ==
    ~pluginsEnabled =>
        /\ PluginEntries(fs') = PluginEntries(fs)
        /\ \A c \in Callers :
              (call'[c] # call[c] /\ Finished(call'[c])) => DisabledOutcome(call'[c])

C15_DisabledPluginsInert == [][C15_DisabledStep]_vars

\* with plugins disabled and a plugin 'p' installed, a lookup of 'p' gave
\* null and a listing gave nothing
C15_Witness ==
    /\ ~pluginsEnabled
    /\ ExistsSync(fs, InstalledP)
    /\ \E c \in Callers :
          /\ prev[c].op = "installPlugin" /\ Raised(prev[c], "SECURITY_VIOLATION")
          /\ call[c].op = "listPlugins" /\ Returned(call[c]) /\ call[c].value = {}

\* C16: no installPlugin request overwrites an installed plugin: a step of
\* an install leaves every file of the plugins directory as it was, and an
\* install succeeds only if no artifact of its name existed before the step
\* that copies.
C16_InstallStep ==
    \A c \in Callers :
        (call[c].op = "installPlugin" /\ Running(call[c]) /\ call'[c] # call[c]) =>
            /\ \A p \in DOMAIN PluginEntries(fs) :
                  p \in DOMAIN fs' /\ fs'[p].data = fs[p].data
            /\ Returned(call'[c]) => ~ExistsSync(fs, call'[c].dstFile)

C16_NoOverwrite == [][C16_InstallStep]_vars

\* path p has a '..' segment
HasTraversal(p) ==
    \E k \in 1..(Len(p) - 3) : SubSeq(p, k, k + 3) = <<"/", ".", ".", "/">>

\* C17: installPlugin of a source path with '..' traversal segments that
\* resolves to an existing file outside the application directory is
\* rejected and copies nothing, also when plugins are enabled.
C17_TraversalRejected ==
    \A c \in Callers :
        LET cr == call[c]
        IN  (/\ cr.op = "installPlugin" /\ HasTraversal(cr.args.path)
             /\ ExistsSync(cr.fs0, cr.args.path) /\ isOutsideAppDir(cr.args.path)) =>
               /\ \A k \in 1..Len(cr.trace) : cr.trace[k].op # "copy"
               /\ Finished(cr) => cr.status = "error"


(***************************************************************************)
(* ExportService: exportDiagram and its handlers.  An export is a record   *)
(* of the closure of one exportDiagram call; st is the pair of all exports *)
(* (ex) and the listeners registered with ipcMain.once (li).               *)
(***************************************************************************)
MaxExports == 2     \* 'export' messages received
MaxPages == 2       \* pages of a diagram

ExportFormats == {"png", "jpg", "pdf", "svg", "xml"}

\* ExportArgs: the fields the control flow of the export reads
ExportArgsSet ==
    {[format |-> f, print |-> FALSE, from |-> 0, to |-> 0] :
        f \in ExportFormats \ {"pdf"}}
    \cup {[format |-> "pdf", print |-> pr, from |-> 0, to |-> t] :
            pr \in BOOLEAN, t \in 0..(MaxPages - 1)}

\* the page shown by a hidden window that has nothing to lay out
BlankPage == 0 - 1

\* the closure of an exportDiagram call.  browser is the window ("none" when
\* it was never constructed), ref whether the variable browser is non-null,
\* pdfs the list of captured buffers (a buffer is the sequence of the pages
\* in it), renders the 'render' commands sent to the window, shown the pages
\* the window displays, pc the await the running handler is suspended at
NewExport(args, pages) ==
    [args |-> args, pageCount |-> pages, valid |-> TRUE,
     browser |-> "alive", ref |-> TRUE, destroys |-> 0, loaded |-> FALSE,
     replies |-> <<>>, acked |-> 0, pdfs |-> <<>>, renders |-> <<>>,
     answered |-> 0, xmlSent |-> FALSE, svgAsked |-> 0, svgSent |-> 0,
     shown |-> <<>>, pc |-> "idle", from |-> 0, to |-> 0, info |-> Null,
     merged |-> <<>>, thrown |-> 0, trace |-> <<>>]

\* event.reply(channel, data)
reply(st, e, channel, data) ==
    [st EXCEPT !.ex[e].replies = Append(@, [channel |-> channel, data |-> data])]

\* ipcMain.once(channel, listener)
once(st, channel, listener) ==
    [st EXCEPT !.li[channel] = Append(@, listener)]

\* contents.send('render', renderArgs)
sendRender(st, e, from, to) ==
    [st EXCEPT !.ex[e].renders = Append(@, [from |-> from, to |-> to]),
               !.ex[e].trace = Append(@, <<"render", Len(st.ex[e].pdfs)>>)]

\* an exception leaves the async handler of export e: its promise rejects
\* and nothing handles it
throw(st, e) ==
    [st EXCEPT !.ex[e].pc = "failed", !.ex[e].thrown = @ + 1]

finalize(st, e) ==
    IF st.ex[e].ref
    THEN [st EXCEPT !.ex[e].browser = "destroyed",
                    !.ex[e].destroys = @ + 1,
                    !.ex[e].ref = FALSE]
    ELSE st

\* handleImageExport up to its first await: browser.setBounds, setTimeout
handleImageExport(st, e) ==
    IF st.ex[e].browser # "alive"
    THEN throw(st, e)
    ELSE [st EXCEPT !.ex[e].pc = "image-delay"]

\* handleImageExport after the delay: await browser.capturePage()
handleImageExportCapture(st, e) ==
    IF st.ex[e].browser # "alive"
    THEN throw(st, e)
    ELSE [st EXCEPT !.ex[e].pc = "image-capture"]

\* handleImageExport after capturePage settled: resize, encode, reply.
\* captured: capturePage resolved and writePngWithText did not throw
handleImageExportReply(st, e, captured) ==
    IF ~captured
    THEN throw(st, e)
    ELSE reply([st EXCEPT !.ex[e].pc = "idle"], e, "export-success", <<>>)

\* handlePdfExport up to its first await
handlePdfExport(st, e, renderInfo, from, to) ==
    IF st.ex[e].browser # "alive"
    THEN throw(st, e)
    ELSE IF st.ex[e].args.print
    THEN [st EXCEPT !.ex[e].pc = "print"]
    ELSE [st EXCEPT !.ex[e].pc = "printToPDF", !.ex[e].from = from,
                    !.ex[e].to = to, !.ex[e].info = renderInfo]

\* the callback of contents.print
handlePdfExportPrinted(st, e) ==
    reply([st EXCEPT !.ex[e].pc = "idle"], e, "export-success", <<>>)

\* handlePdfExport after printToPDF settled: resolved with data, or rejected
handlePdfExportData(st, e, resolved, data) ==
    LET x == st.ex[e]
        pushed == [st EXCEPT !.ex[e].pdfs = Append(@, data),
                             !.ex[e].trace = Append(@, <<"push", Len(x.pdfs) + 1>>)]
        pageCount == x.info.pageCount
        toPage == IF x.to > pageCount THEN pageCount ELSE x.to
    IN  IF ~resolved
        THEN reply([st EXCEPT !.ex[e].pc = "idle"], e, "export-error", <<>>)
        ELSE IF x.info = Null
        THEN reply([pushed EXCEPT !.ex[e].pc = "idle"], e, "export-error", <<>>)
        ELSE IF x.from < toPage
        THEN LET listening == once([pushed EXCEPT !.ex[e].pc = "idle"],
                                   "render-finished",
                                   [fn |-> "nextPage", id |-> e,
                                    from |-> x.from + 1, to |-> toPage])
             IN  IF x.browser # "alive"
                 THEN reply(listening, e, "export-error", <<>>)
                 ELSE sendRender(listening, e, x.from + 1, x.from + 1)
        ELSE [pushed EXCEPT !.ex[e].pc = "mergePdfs"]

\* mergePdfs: the pages of the merged document
mergePdfs(pdfFiles) ==
    IF Len(pdfFiles) = 1
    THEN pdfFiles[1]
    ELSE Flatten(pdfFiles)

\* handlePdfExport after mergePdfs resolved
handlePdfExportMerged(st, e) ==
    LET merged == mergePdfs(st.ex[e].pdfs)
    IN  reply([st EXCEPT !.ex[e].pc = "idle", !.ex[e].merged = merged],
              e, "export-success", merged)

handleSvgExport(st, e) ==
    IF st.ex[e].browser # "alive"
    THEN throw(st, e)
    ELSE once([st EXCEPT !.ex[e].svgAsked = @ + 1], "svg-data",
              [fn |-> "svg-data", id |-> e, from |-> 0, to |-> 0])

handleXmlExport(st, e) == st

\* renderInfo is Null, or [bounds |-> ok, pageCount |-> n] where ok tells
\* whether bounds parses to a box at least 5 wide and 5 high
renderingFinishHandler(st, e, renderInfo) ==
    LET args == st.ex[e].args
    IN  IF renderInfo = Null
        THEN reply(st, e, "export-error", <<>>)
        ELSE IF ~renderInfo.bounds
        THEN reply(st, e, "export-error", <<>>)
        ELSE IF args.format \in {"png", "jpg", "jpeg"}
        THEN handleImageExport(st, e)
        ELSE IF args.format = "pdf"
        THEN handlePdfExport(st, e, renderInfo, args.from, args.to)
        ELSE IF args.format = "svg"
        THEN handleSvgExport(st, e)
        ELSE IF args.format = "xml"
        THEN handleXmlExport(st, e)
        ELSE reply(st, e, "export-error", <<>>)

Listener(fn, e) == [fn |-> fn, id |-> e, from |-> 0, to |-> 0]

\* the listener of 'did-finish-load'
didFinishLoad(st, e) ==
    LET args == st.ex[e].args
        s1 == once([st EXCEPT !.ex[e].loaded = TRUE], "export-finalize",
                   Listener("finalize", e))
        s2 == once(s1, "render-finished", Listener("renderingFinishHandler", e))
        s3 == IF args.format = "xml"
              THEN once(once(s2, "xml-data", Listener("xml-data", e)),
                        "xml-data-error", Listener("xml-data-error", e))
              ELSE s2
    IN  sendRender(s3, e, args.from, args.to)

\* exportDiagram up to its return; constructed: new BrowserWindow returned
exportDiagram(st, args, pages, constructed) ==
    LET e == Len(st.ex) + 1
    IN  IF constructed
        THEN [st EXCEPT !.ex = Append(@, NewExport(args, pages))]
        ELSE reply([st EXCEPT !.ex = Append(@,
                       [NewExport(args, pages) EXCEPT !.browser = "none",
                                                      !.ref = FALSE])],
                   e, "export-error", <<>>)

\* the call of one listener with the payload of the message
Invoke(l, st, payload) ==
    CASE l.fn = "finalize" -> finalize(st, l.id)
      [] l.fn = "renderingFinishHandler" ->
            renderingFinishHandler(st, l.id, payload)
      [] l.fn = "nextPage" ->
            handlePdfExport(st, l.id, payload, l.from, l.to)
      [] l.fn = "xml-data" -> reply(st, l.id, "export-success", <<>>)
      [] l.fn = "xml-data-error" -> reply(st, l.id, "export-error", <<>>)
      [] l.fn = "svg-data" -> reply(st, l.id, "export-success", <<>>)

RECURSIVE RunListeners(_, _, _)
RunListeners(ls, st, payload) ==
    IF ls = <<>>
    THEN st
    ELSE RunListeners(Tail(ls), Invoke(Head(ls), st, payload), payload)

\* ipcMain.emit(channel, event, payload): every listener registered with
\* once is removed and called, in the order of registration
emit(st, channel, payload) ==
    RunListeners(st.li[channel], [st EXCEPT !.li[channel] = <<>>], payload)


(***************************************************************************)
(* SpecExport: 'export' messages, the hidden windows' renderers answering  *)
(* the commands sent to them, the requester acknowledging each reply with  *)
(* 'export-finalize', and the awaits of the handlers settling.             *)
(***************************************************************************)
ExportSt == [ex |-> exports, li |-> ipcListeners]

ExportStep(st) ==
    /\ exports' = st.ex
    /\ ipcListeners' = st.li
    /\ UNCHANGED <<now, fs, call, prev, todo, nExt, doc, ipcVars, pluginsEnabled,
                   limLog, filenames, hostVars,
                   auxVars>>

\* the pages the renderer lays out for the 'render' command r
RenderedPages(r, pages) ==
    LET hi == IF r.to < pages - 1 THEN r.to ELSE pages - 1
    IN  IF r.from > hi
        THEN <<BlankPage>>
        ELSE [k \in 1..(hi - r.from + 1) |-> r.from + k - 1]

RenderInfos(pages) ==
    {Null, [bounds |-> FALSE, pageCount |-> pages],
     [bounds |-> TRUE, pageCount |-> pages]}

InitExportOnly ==
    /\ now = 0
    /\ fs = InitialDisk
    /\ call = [c \in Callers |-> NoCall]
    /\ prev = [c \in Callers |-> NoCall]
    /\ nExt = 0
    /\ doc = [path |-> PluginA, data |-> XmlData, enc |-> Undefined]
    /\ todo = [c \in Callers |-> <<>>]
    /\ InitDispatcher(<<>>, 0, 0)
    /\ InitServices

\* ipcMain.on('export'): the message is dropped unless the sender is valid
ExportMessage ==
    /\ Len(exports) < MaxExports
    /\ \E frame \in Frames, args \in ExportArgsSet, pages \in 1..MaxPages,
          constructed \in BOOLEAN :
          IF ~validateSender(frame)
          THEN ExportStep([ExportSt EXCEPT !.ex = Append(@,
                     [NewExport(args, pages) EXCEPT !.valid = FALSE,
                          !.browser = "none", !.ref = FALSE])])
          ELSE ExportStep(exportDiagram(ExportSt, args, pages, constructed))

DidFinishLoad(e) ==
    /\ exports[e].valid
    /\ exports[e].browser = "alive"
    /\ ~exports[e].loaded
    /\ ExportStep(didFinishLoad(ExportSt, e))

\* the renderer of export e answers the oldest 'render' command
RenderFinished(e) ==
    /\ exports[e].browser = "alive"
    /\ exports[e].answered < Len(exports[e].renders)
    /\ \E renderInfo \in RenderInfos(exports[e].pageCount) :
          ExportStep(emit(
              [ExportSt EXCEPT
                  !.ex[e].answered = @ + 1,
                  !.ex[e].shown = RenderedPages(
                        exports[e].renders[exports[e].answered + 1],
                        exports[e].pageCount)],
              "render-finished", renderInfo))

\* the renderer of an xml export sends the source, or that it has none
XmlDataSent(e) ==
    /\ exports[e].browser = "alive"
    /\ exports[e].args.format = "xml"
    /\ exports[e].renders # <<>>
    /\ ~exports[e].xmlSent
    /\ \E channel \in {"xml-data", "xml-data-error"} :
          ExportStep(emit([ExportSt EXCEPT !.ex[e].xmlSent = TRUE],
                          channel, <<>>))

\* the renderer of export e answers 'get-svg-data'
SvgData(e) ==
    /\ exports[e].browser = "alive"
    /\ exports[e].svgSent < exports[e].svgAsked
    /\ ExportStep(emit([ExportSt EXCEPT !.ex[e].svgSent = @ + 1],
                       "svg-data", <<>>))

\* the requester sends 'export-finalize' for a reply it received
ExportFinalize(e) ==
    /\ exports[e].acked < Len(exports[e].replies)
    /\ ExportStep(emit([ExportSt EXCEPT !.ex[e].acked = @ + 1],
                       "export-finalize", <<>>))

ImageDelay(e) ==
    /\ exports[e].pc = "image-delay"
    /\ ExportStep(handleImageExportCapture(ExportSt, e))

ImageCaptured(e) ==
    /\ exports[e].pc = "image-capture"
    /\ \E captured \in (IF exports[e].browser = "alive" THEN BOOLEAN
                        ELSE {FALSE}) :
          ExportStep(handleImageExportReply(ExportSt, e, captured))

PrintCallback(e) ==
    /\ exports[e].pc = "print"
    /\ ExportStep(handlePdfExportPrinted(ExportSt, e))

PrintToPDF(e) ==
    /\ exports[e].pc = "printToPDF"
    /\ \E resolved \in (IF exports[e].browser = "alive" THEN BOOLEAN
                        ELSE {FALSE}) :
          ExportStep(handlePdfExportData(ExportSt, e, resolved,
              IF exports[e].shown = <<>> THEN <<BlankPage>>
              ELSE exports[e].shown))

MergePdfs(e) ==
    /\ exports[e].pc = "mergePdfs"
    /\ ExportStep(handlePdfExportMerged(ExportSt, e))

NextExport ==
    \/ ExportMessage
    \/ \E e \in 1..Len(exports) : DidFinishLoad(e)
    \/ \E e \in 1..Len(exports) : RenderFinished(e)
    \/ \E e \in 1..Len(exports) : XmlDataSent(e)
    \/ \E e \in 1..Len(exports) : SvgData(e)
    \/ \E e \in 1..Len(exports) : ExportFinalize(e)
    \/ \E e \in 1..Len(exports) : ImageDelay(e)
    \/ \E e \in 1..Len(exports) : ImageCaptured(e)
    \/ \E e \in 1..Len(exports) : PrintCallback(e)
    \/ \E e \in 1..Len(exports) : PrintToPDF(e)
    \/ \E e \in 1..Len(exports) : MergePdfs(e)

SpecExport == InitExportOnly /\ [][NextExport]_vars


(***************************************************************************)
(* Properties of the export pipeline.                                      *)
(***************************************************************************)
ExportIds == 1..Len(exports)

\* a listener of export e is still registered on a channel that replies
Listening(e) ==
    \E ch \in ExportChannels \ {"export-finalize"} :
        \E k \in 1..Len(ipcListeners[ch]) : ipcListeners[ch][k].id = e

\* export e has ended: its window has loaded or is gone, no handler of it is
\* suspended at an await, no listener of it waits for a message and its
\* renderer owes no message
ExportEnded(e) ==
    LET x == exports[e]
    IN  /\ x.valid
        /\ x.loaded \/ x.browser # "alive"
        /\ x.pc \in {"idle", "failed"}
        /\ ~Listening(e)
        /\ \/ x.browser # "alive"
           \/ /\ x.answered = Len(x.renders)
              /\ x.svgSent = x.svgAsked
              /\ x.args.format = "xml" => x.xmlSent

\* C18: every export request accepted from a valid sender ends in exactly
\* one reply, 'export-success' or 'export-error': never more than one reply
\* at any time, and one reply once the export has ended, for every format
\* and every order of the renderer's messages.
C18_ExactlyOneReply ==
    \A e \in ExportIds :
        exports[e].valid =>
            /\ Len(exports[e].replies) <= 1
            /\ ExportEnded(e) => Len(exports[e].replies) = 1


\* C19: the hidden window of every export request is destroyed exactly
\* once, whichever branch was taken and whether it succeeded or failed:
\* never twice, and not left alive once the export has ended and the
\* requester has sent 'export-finalize' for every reply it received.
C19_DestroyedOnce ==
    \A e \in ExportIds :
        (exports[e].valid /\ exports[e].browser # "none") =>
            /\ exports[e].destroys <= 1
            /\ (ExportEnded(e) /\ exports[e].acked = Len(exports[e].replies))
                  => (exports[e].destroys = 1 /\ exports[e].browser = "destroyed")


\* the 'render' commands among the first k events of export e
RendersUpTo(e, k) ==
    Cardinality({j \in 1..k : exports[e].trace[j][1] = "render"})

\* C20: within one non-print PDF export the render of page k+1 is requested
\* only after the capture of page k was appended to the buffer list, and the
\* merged document holds the pages of the accumulated buffers in order, its
\* page count equal to the number of buffers.
C20_PdfPagesInOrder ==
    \A e \in ExportIds :
        LET x == exports[e]
        IN  (x.valid /\ x.args.format = "pdf" /\ ~x.args.print) =>
              /\ \A k \in 1..Len(x.trace) :
                    x.trace[k][1] = "render" =>
                        x.trace[k][2] = RendersUpTo(e, k) - 1
              /\ x.merged # <<>> =>
                    /\ x.merged = Flatten(x.pdfs)
                    /\ Len(x.merged) = Len(x.pdfs)


(***************************************************************************)
(* SpecLimiter: a RateLimiter of a small cap and window, its canProceed    *)
(* and reset called for two keys while the clock advances.                 *)
(***************************************************************************)
SmallCap == 2       \* maxCalls of the limiter
SmallWindow == 2    \* windowMs of the limiter
MaxClock == 4       \* the clock runs from 0 to MaxClock
MaxLimiterCalls == 5    \* calls of canProceed and reset

LimiterKeys == {<<"a">>, <<"b">>}

InitLimiter ==
    /\ now = 0
    /\ fs = InitialDisk
    /\ call = [c \in Callers |-> NoCall]
    /\ prev = [c \in Callers |-> NoCall]
    /\ nExt = 0
    /\ doc = [path |-> PluginA, data |-> XmlData, enc |-> Undefined]
    /\ todo = [c \in Callers |-> <<>>]
    /\ rateLimiter = RateLimiter(SmallCap, SmallWindow)
    /\ reached = <<>>
    /\ reqs = [c \in Callers |-> NoReq]
    /\ last = NoReq
    /\ nReq = 0
    /\ nResp = 0
    /\ InitServices

LimiterStep(limiter, entry) ==
    /\ Len(limLog) < MaxLimiterCalls
    /\ rateLimiter' = limiter
    /\ limLog' = Append(limLog, entry)
    /\ UNCHANGED <<now, fs, call, prev, todo, nExt, doc, reached, reqs, last,
                   nReq, nResp, pluginsEnabled, exports, ipcListeners, filenames,
                   hostVars,
                   auxVars>>

\* rateLimiter.canProceed(key) at the time of the clock
CanProceed(key) ==
    LET r == canProceed(rateLimiter, key, now)
    IN  LimiterStep(r.limiter,
                    [op |-> "canProceed", key |-> key, t |-> now, ok |-> r.ok])

\* rateLimiter.reset(key)
Reset(key) ==
    LimiterStep(reset(rateLimiter, key),
                [op |-> "reset", key |-> key, t |-> now, ok |-> TRUE])

ClockTick ==
    /\ now < MaxClock
    /\ now' = now + 1
    /\ UNCHANGED <<fs, call, prev, todo, nExt, doc, ipcVars, svcVars>>

NextLimiter ==
    \/ \E key \in LimiterKeys : CanProceed(key)
    \/ \E key \in LimiterKeys : Reset(key)
    \/ ClockTick

SpecLimiter == InitLimiter /\ [][NextLimiter]_vars


(***************************************************************************)
(* Properties of the RateLimiter (SpecLimiter).                            *)
(***************************************************************************)
\* the timestamps recorded for key that are newer than now - windowMs
RecentOf(key) ==
    SelectSeq(CallsOf(rateLimiter, key),
              LAMBDA ts : now - ts < rateLimiter.windowMs)

\* C22: after any sequence of canProceed and reset calls at non-decreasing
\* times, for every key the number of recorded timestamps newer than
\* now - windowMs never exceeds maxCalls.
C22_WindowNeverOverCap ==
    \A key \in DOMAIN rateLimiter.calls :
        Len(RecentOf(key)) <= rateLimiter.maxCalls

\* a key holds maxCalls recent timestamps and its last call was refused
C22_Witness ==
    /\ limLog # <<>>
    /\ LET e == limLog[Len(limLog)]
       IN  /\ e.op = "canProceed" /\ ~e.ok
           /\ Len(RecentOf(e.key)) = rateLimiter.maxCalls

\* the last reset of the key of call i before call i of log, or 0
LastReset(log, i) ==
    LET rs == {j \in 1..(i - 1) : log[j].op = "reset" /\ log[j].key = log[i].key}
    IN  IF rs = {} THEN 0 ELSE CHOOSE j \in rs : \A k \in rs : k <= j

\* the calls of canProceed for the key of call i that returned true after
\* that reset, before call i and less than a window before it
OwnCalls(log, i) ==
    {j \in (LastReset(log, i) + 1)..(i - 1) :
        /\ log[j].op = "canProceed" /\ log[j].key = log[i].key /\ log[j].ok
        /\ log[i].t - log[j].t < SmallWindow}

\* a step that calls canProceed(key) returns true when fewer than cap calls
\* for key were let through in the window since the last reset(key), false
\* otherwise, and a call that returns false leaves the limiter as it was
C23_Step ==
    (Len(limLog') = Len(limLog) + 1 /\ limLog'[Len(limLog')].op = "canProceed") =>
        LET e == limLog'[Len(limLog')]
        IN  /\ e.ok <=> Cardinality(OwnCalls(limLog', Len(limLog'))) < SmallCap
            /\ ~e.ok => rateLimiter' = rateLimiter

\* C23: for a limiter with cap N the first N canProceed(key) calls within
\* one window return true, the (N+1)th call within the same window returns
\* false and records nothing, and after reset(key) the next canProceed(key)
\* returns true.
C23_CapThenReset == [][C23_Step]_vars

\* cap calls for a key were let through, the next was refused, the key was
\* reset and the call after that was let through, all within one window
C23_Witness ==
    \E i \in 1..(Len(limLog) - 2) :
        /\ limLog[i].op = "canProceed" /\ ~limLog[i].ok
        /\ Cardinality(OwnCalls(limLog, i)) = SmallCap
        /\ limLog[i + 1].op = "reset" /\ limLog[i + 1].key = limLog[i].key
        /\ limLog[i + 2].op = "canProceed" /\ limLog[i + 2].key = limLog[i].key
        /\ limLog[i + 2].ok /\ limLog[i + 2].t - limLog[i].t < SmallWindow

\* the calls of canProceed before call i of log, for the same key, that
\* returned true and are younger than the window at the time of call i
YoungCalls(log, i) ==
    {j \in 1..(i - 1) :
        /\ log[j].op = "canProceed" /\ log[j].key = log[i].key /\ log[j].ok
        /\ log[i].t < log[j].t + rateLimiter.windowMs}

\* C40: the rate-limit window slides: a call accepted at time t no longer
\* counts against the cap for a canProceed at time >= t + windowMs, so, for
\* a key that was never reset, canProceed returns true exactly when fewer
\* than maxCalls of the key's accepted calls are younger than windowMs.
C40_WindowSlides ==
    \A i \in 1..Len(limLog) :
        (/\ limLog[i].op = "canProceed"
         /\ \A j \in 1..(i - 1) : limLog[j].op # "reset")
            => (limLog[i].ok <=>
                    Cardinality(YoungCalls(limLog, i)) < rateLimiter.maxCalls)

\* a key was refused at the cap and, with no reset in between, let through
\* again once the window had moved past its accepted calls
C40_Witness ==
    \E i \in 1..Len(limLog) : \E k \in (i + 1)..Len(limLog) :
        /\ \A j \in 1..k : limLog[j].op = "canProceed"
        /\ limLog[i].key = limLog[k].key
        /\ ~limLog[i].ok /\ limLog[k].ok
        /\ Cardinality({j \in 1..(k - 1) : limLog[j].key = limLog[k].key
                                           /\ limLog[j].ok}) >= rateLimiter.maxCalls


(***************************************************************************)
(* SpecSanitize: sanitizeFilename applied to a filename, and again to its  *)
(* result.                                                                 *)
(***************************************************************************)
MaxNameLen == 3     \* length of the short filenames

NameChars == {"a", " ", "<", "/", "."}

ShortNames == UNION {[1..n -> NameChars] : n \in 0..MaxNameLen}

\* 'file<name>.txt' and 'file:name|*.txt'
TestNames ==
    {<<"f", "i", "l", "e", "<", "n", "a", "m", "e", ">", ".", "t", "x", "t">>,
     <<"f", "i", "l", "e", ":", "n", "a", "m", "e", "|", "*", ".", "t", "x", "t">>}

\* names at and beyond the cap of 255 characters
LongNames ==
    {Repeat("a", 255), Repeat("a", 256),
     Repeat("a", 254) \o <<" ", "b">>,
     Repeat("a", 253) \o <<"<", " ", "b", "c">>}

FilenameInputs == ShortNames \cup TestNames \cup LongNames

InitSanitize ==
    /\ now = 0
    /\ fs = InitialDisk
    /\ call = [c \in Callers |-> NoCall]
    /\ prev = [c \in Callers |-> NoCall]
    /\ nExt = 0
    /\ doc = [path |-> PluginA, data |-> XmlData, enc |-> Undefined]
    /\ todo = [c \in Callers |-> <<>>]
    /\ InitDispatcher(<<>>, 0, 0)
    /\ pluginsEnabled = FALSE
    /\ exports = <<>>
    /\ ipcListeners = [ch \in ExportChannels |-> <<>>]
    /\ limLog = <<>>
    /\ InitHost
    /\ InitAux
    /\ \E x \in FilenameInputs : filenames = [input |-> x, outs |-> <<>>]

\* sanitizeFilename(filename), then sanitizeFilename of what it returned
SanitizeFilename ==
    /\ Len(filenames.outs) < 2
    /\ filenames' = [filenames EXCEPT !.outs =
            Append(@, sanitizeFilename(IF @ = <<>> THEN filenames.input
                                       ELSE @[Len(@)]))]
    /\ UNCHANGED <<now, fs, call, prev, todo, nExt, doc, ipcVars, pluginsEnabled,
                   exports, ipcListeners, limLog, hostVars,
                   auxVars>>

NextSanitize == SanitizeFilename

SpecSanitize == InitSanitize /\ [][NextSanitize]_vars

\* C29: sanitizeFilename is idempotent: for every input string x, also one
\* longer than the cap of 255 characters, sanitizeFilename(sanitizeFilename(x))
\* equals sanitizeFilename(x).
C29_Idempotent ==
    Len(filenames.outs) = 2 => filenames.outs[2] = filenames.outs[1]

\* the filename with each of < > : " | ? * turned into a space, the path
\* separators removed, runs of whitespace collapsed and the ends trimmed;
\* the cap and the fallback name as sanitizeFilename has them
WordBreaks(filename) ==
    LET noSep     == SelectSeq(filename, LAMBDA ch : ch \notin {"/", "\\"})
        spaced    == [k \in 1..Len(noSep) |->
                         IF noSep[k] \in {"<", ">", ":", "\"", "|", "?", "*"}
                         THEN " " ELSE noSep[k]]
        sanitized == Prefix(Trim(CollapseSpaces(spaced)), 255)
    IN  IF \A k \in 1..Len(sanitized) : sanitized[k] = "."
        THEN <<"u", "n", "n", "a", "m", "e", "d">>
        ELSE sanitized

\* C30: sanitizeFilename treats each of < > : " | ? * as a word break: its
\* result is the input with every such character turned into a space, path
\* separators removed, whitespace runs collapsed to one space and the ends
\* trimmed; 'file<name>.txt' and 'file:name|*.txt' become 'file name .txt'.
C30_WordBreaks ==
    Len(filenames.outs) >= 1 => filenames.outs[1] = WordBreaks(filenames.input)


(***************************************************************************)
(* Error kinds of readFile (Spec).                                         *)
(***************************************************************************)
\* C28: readFile of a path that does not exist fails with the error kind
\* FILE_NOT_FOUND (and of a path without read permission with
\* FILE_ACCESS_DENIED); an error of the filesystem never reaches the caller
\* untyped, with a code that is none of the error kinds.
C28_ReadErrorsTyped ==
    \A c \in Callers :
        LET cr == call[c]
        IN  (cr.op = "readFile" /\ Finished(cr) /\ cr.status = "error") =>
              /\ cr.code \in ErrorCodes
              /\ (isOutsideAppDir(cr.args.path) /\ ~cr.disturbed
                  /\ ~ExistsSync(cr.fs0, cr.args.path)) => cr.code = "FILE_NOT_FOUND"


(***************************************************************************)
(* SpecHost: the listeners that initializeIPC registers, on the state of   *)
(* the host: the dialog flag, the clipboard, the store, the windows and    *)
(* the exports.  Two windows load the same content; a window holds the     *)
(* frame of that content and may hold a frame of foreign content.          *)
(***************************************************************************)
MaxMsgs == 2        \* IPC messages the host handles

\* zoomSteps, in hundredths
zoomSteps ==
    <<25, 33, 50, 67, 75, 80, 90, 100, 110, 125, 150, 175, 200, 250, 300, 400, 500>>

\* BrowserWindow.getFocusedWindow() gave a window
HasFocus == focused # 0

\* WindowManager.zoomIn on the windows ws: the focused window, if there is
\* one, goes to the first step more than 0.01 above its zoom factor, or to
\* the last step
zoomIn(ws) ==
    IF ~HasFocus THEN ws
    ELSE LET above == {i \in 1..Len(zoomSteps) :
                          zoomSteps[i] - ws[focused].zoomFactor > 1}
         IN  [ws EXCEPT ![focused].zoomFactor =
                 IF above = {} THEN zoomSteps[Len(zoomSteps)]
                 ELSE zoomSteps[CHOOSE i \in above : \A j \in above : i <= j]]

\* WindowManager.zoomOut: the last step more than 0.01 below, or the first
zoomOut(ws) ==
    IF ~HasFocus THEN ws
    ELSE LET below == {i \in 1..Len(zoomSteps) :
                          zoomSteps[i] - ws[focused].zoomFactor < 0 - 1}
         IN  [ws EXCEPT ![focused].zoomFactor =
                 IF below = {} THEN zoomSteps[1]
                 ELSE zoomSteps[CHOOSE i \in below : \A j \in below : i >= j]]

\* WindowManager.resetZoom
resetZoom(ws) == IF ~HasFocus THEN ws ELSE [ws EXCEPT ![focused].zoomFactor = 100]

\* WindowManager.toggleFullScreen
toggleFullScreen(ws) ==
    IF ~HasFocus THEN ws ELSE [ws EXCEPT ![focused].fullScreen = ~@]

\* const win = BrowserWindow.getFocusedWindow();
\* if (win) win.webContents.openDevTools()
openDevTools(ws) == IF ~HasFocus THEN ws ELSE [ws EXCEPT ![focused].devTools = TRUE]

\* process.platform
platform == "linux"

\* store.set(key, !(store.get(key) ?? dflt))
toggle(st, key, dflt) ==
    LET current == IF key \in DOMAIN st THEN st[key] ELSE dflt
    IN  [k \in DOMAIN st \cup {key} |-> IF k = key THEN ~current ELSE st[k]]

\* handleClipboardAction(method, data) on the clipboard text clip: what is
\* on the clipboard afterwards; clipboard.write of an image leaves no text
handleClipboardAction(clip, method, data) ==
    CASE method = "writeText"  -> data
      [] method = "writeImage" -> <<>>
      [] OTHER                 -> clip

DialogTargets == {"dialog.showOpenDialog", "dialog.showSaveDialog"}

\* the frames that send messages: per window, the frame of the
\* application's content and a frame of foreign content
Senders == Windows \X {TrustedFrame, ForeignFrame}

\* what the listeners of the plain channels change
Host == [store |-> store, windows |-> windows, rendererMsgs |-> rendererMsgs]

InitHostOnly ==
    /\ now = 0
    /\ fs = InitialDisk
    /\ call = [c \in Callers |-> NoCall]
    /\ prev = [c \in Callers |-> NoCall]
    /\ nExt = 0
    /\ doc = [path |-> PluginA, data |-> XmlData, enc |-> Undefined]
    /\ todo = [c \in Callers |-> <<>>]
    /\ pluginsEnabled = FALSE
    /\ exports = <<>>
    /\ ipcListeners = [ch \in ExportChannels |-> <<>>]
    /\ limLog = <<>>
    /\ filenames = [input |-> <<>>, outs |-> <<>>]
    /\ dialogOpen = FALSE
    /\ clipboard = <<"c">>
    /\ store = <<>>
    /\ windows = [w \in Windows |->
                     [zoomFactor |-> 100, fullScreen |-> FALSE, devTools |-> FALSE]]
    /\ focused = 1
    /\ rendererMsgs = <<>>
    /\ InitAux
    \* window 1 has sent no request yet, or all but one of those the limiter
    \* lets through in its window
    /\ \E prior \in {0, maxCalls - 1} :
          /\ InitDispatcher(TrustedFrame.url, prior, 0)
          /\ received = NoMessage([w \in Windows |-> IF w = 1 THEN prior ELSE 0])

\* the listener of channel handled a message of frame in window w
Handle(channel, w, frame, entered) ==
    /\ received.n < MaxMsgs
    /\ received' = [n |-> received.n + 1, channel |-> channel, window |-> w,
                    frame |-> frame, entered |-> entered]

\* a listener of a plain channel ran and left the host as h
HostStep(channel, w, frame, h) ==
    /\ Handle(channel, w, frame, received.entered)
    /\ store' = h.store
    /\ windows' = h.windows
    /\ rendererMsgs' = h.rendererMsgs
    /\ UNCHANGED <<now, fs, call, prev, todo, nExt, doc, ipcVars, pluginsEnabled,
                   exports, ipcListeners, limLog, filenames, dialogOpen, clipboard,
                   focused,
                   auxVars>>

\* ipcMain.on('newfile')
Newfile(w, frame) ==
    HostStep("newfile", w, frame,
             IF ~validateSender(frame) THEN Host
             ELSE [Host EXCEPT !.rendererMsgs =
                      Append(@, [to |-> w, channel |-> "request-new-window"])])

\* ipcMain.on('openDevTools')
OpenDevTools(w, frame) ==
    HostStep("openDevTools", w, frame,
             IF ~validateSender(frame) THEN Host
             ELSE [Host EXCEPT !.windows = openDevTools(@)])

\* ipcMain.on('toggleSpellCheck')
ToggleSpellCheck(w, frame) ==
    HostStep("toggleSpellCheck", w, frame,
             IF ~validateSender(frame) THEN Host
             ELSE [Host EXCEPT !.store =
                      toggle(@, "enableSpellCheck", platform = "darwin")])

\* ipcMain.on('toggleStoreBkp')
ToggleStoreBkp(w, frame) ==
    HostStep("toggleStoreBkp", w, frame,
             IF ~validateSender(frame) THEN Host
             ELSE [Host EXCEPT !.store = toggle(@, "enableStoreBkp", TRUE)])

\* ipcMain.on('toggleGoogleFonts')
ToggleGoogleFonts(w, frame) ==
    HostStep("toggleGoogleFonts", w, frame,
             IF ~validateSender(frame) THEN Host
             ELSE [Host EXCEPT !.store = toggle(@, "isGoogleFontsEnabled", FALSE)])

\* ipcMain.on('toggleFullscreen')
ToggleFullscreen(w, frame) ==
    HostStep("toggleFullscreen", w, frame,
             IF ~validateSender(frame) THEN Host
             ELSE [Host EXCEPT !.windows = toggleFullScreen(@)])

\* ipcMain.on('zoomIn', () => WindowManager.zoomIn())
ZoomIn(w, frame) ==
    HostStep("zoomIn", w, frame, [Host EXCEPT !.windows = zoomIn(@)])

\* ipcMain.on('zoomOut', () => WindowManager.zoomOut())
ZoomOut(w, frame) ==
    HostStep("zoomOut", w, frame, [Host EXCEPT !.windows = zoomOut(@)])

\* ipcMain.on('resetZoom', () => WindowManager.resetZoom())
ResetZoom(w, frame) ==
    HostStep("resetZoom", w, frame, [Host EXCEPT !.windows = resetZoom(@)])

\* ipcMain.on('export'): a first export
Export(w, frame) ==
    /\ Len(exports) < 1
    /\ Handle("export", w, frame, received.entered)
    /\ \E args \in ExportArgsSet, constructed \in BOOLEAN :
          LET st == IF ~validateSender(frame) THEN ExportSt
                    ELSE exportDiagram(ExportSt, args, 1, constructed)
          IN  exports' = st.ex /\ ipcListeners' = st.li
    /\ UNCHANGED <<now, fs, call, prev, todo, nExt, doc, ipcVars, pluginsEnabled,
                   limLog, filenames, dialogOpen, clipboard, store, windows, focused,
                   rendererMsgs,
                   auxVars>>

\* the actions of 'rendererReq' whose targets act on the host
HostActions == {"showOpenDialog", "showSaveDialog", "clipboardAction"}

ClipboardMethods == {"readText", "writeText", "writeImage"}

\* ipcMain.on('rendererReq'), up to the first await: the listener as
\* rendererReq gives it, with what the target does to the host: a dialog
\* target sets dialogOpen before it awaits the dialog
HostRequest(w, frame) ==
    /\ received.n < MaxMsgs
    /\ nReq < MaxReq
    /\ Free # {}
    /\ \E action \in HostActions :
       \E method \in (IF action = "clipboardAction" THEN ClipboardMethods ELSE {""}) :
       \E args \in {[reqId |-> nReq + 1, action |-> action, method |-> method,
                     data |-> <<"d">>]} :
       \E h \in {rendererReq(frame, args, rateLimiter, reached, fs, now, TRUE)} :
          LET acts == h.req.proceed
          IN  /\ Receive(CHOOSE k \in Free : \A m \in Free : k <= m, h)
              /\ dialogOpen' = IF acts /\ h.req.target \in DialogTargets THEN TRUE
                               ELSE dialogOpen
              /\ clipboard' = IF acts /\ h.req.target = "handleClipboardAction"
                              THEN handleClipboardAction(clipboard, method, args.data)
                              ELSE clipboard
              /\ Handle("rendererReq", w, frame,
                        IF acts THEN [received.entered EXCEPT ![w] = @ + 1]
                        ELSE received.entered)
    /\ nReq' = nReq + 1
    /\ UNCHANGED <<now, prev, todo, nExt, doc, pluginsEnabled, exports, ipcListeners,
                   limLog, filenames, store, windows, focused, rendererMsgs,
                   auxVars>>

\* the dialog that caller c's request awaits returns or throws: finally
\* dialogOpen = false, and the listener replies
DialogClosed(c) ==
    /\ reqs[c].stage = "await"
    /\ reqs[c].target \in DialogTargets
    /\ \E ok \in BOOLEAN : Replied(c, SettledResp(reqs[c], call[c], ok))
    /\ dialogOpen' = FALSE
    /\ UNCHANGED <<now, fs, prev, todo, nExt, doc, rateLimiter, reached, nReq,
                   pluginsEnabled, exports, ipcListeners, limLog, filenames,
                   clipboard, store, windows, focused, received, rendererMsgs,
                   auxVars>>

\* the user focuses another window, or none of the application's
Focus(w) ==
    /\ w # focused
    /\ focused' = w
    /\ UNCHANGED <<now, fs, call, prev, todo, nExt, doc, ipcVars, pluginsEnabled,
                   exports, ipcListeners, limLog, filenames, dialogOpen, clipboard,
                   store, windows, received, rendererMsgs,
                   auxVars>>

NextHost ==
    \/ \E s \in Senders :
          \/ Newfile(s[1], s[2])
          \/ OpenDevTools(s[1], s[2])
          \/ ToggleSpellCheck(s[1], s[2])
          \/ ToggleStoreBkp(s[1], s[2])
          \/ ToggleGoogleFonts(s[1], s[2])
          \/ ToggleFullscreen(s[1], s[2])
          \/ ZoomIn(s[1], s[2])
          \/ ZoomOut(s[1], s[2])
          \/ ResetZoom(s[1], s[2])
          \/ Export(s[1], s[2])
          \/ HostRequest(s[1], s[2])
    \/ \E c \in Callers : DialogClosed(c)
    \/ \E w \in Windows \cup {0} : Focus(w)

SpecHost == InitHostOnly /\ [][NextHost]_vars

\* the dialog calls in progress: the requests that await a dialog
DialogsInProgress ==
    {c \in Callers : reqs[c].stage = "await" /\ reqs[c].target \in DialogTargets}

\* C21: whenever at least one showOpenDialog or showSaveDialog call is in
\* progress, isDialogOpen() is true, also when several dialog requests
\* overlap; once every dialog call has returned or thrown, it is false.
C21_DialogFlag == dialogOpen <=> DialogsInProgress # {}

\* C24: rate limiting is per window: a request of a window is refused as
\* rate limited only when that window itself had maxCalls requests let
\* through in the limiter's window (the clock of this specification stays
\* inside one window), also when both windows load the same content URL.
C24_Step ==
    (/\ received'.n = received.n + 1
     /\ received'.channel = "rendererReq"
     /\ last'.args.reqId = nReq'
     /\ last'.valid /\ ~last'.proceed)
        => received.entered[received'.window] >= maxCalls
C24_PerWindow == [][C24_Step]_vars

\* C25: a 'clipboardAction' request with method 'readText' is answered with
\* a success reply whose data is the clipboard text; 'writeText' and
\* 'writeImage' are answered with data null.
C25_Step ==
    (/\ received'.n = received.n + 1
     /\ received'.channel = "rendererReq"
     /\ last'.args.reqId = nReq'
     /\ last'.proceed
     /\ last'.args.action = "clipboardAction")
        => /\ Len(last'.out) = 1
           /\ ~last'.out[1].error
           /\ last'.out[1].data = IF last'.args.method = "readText"
                                  THEN Str(clipboard) ELSE Null
C25_ClipboardReply == [][C25_Step]_vars

\* C26: every listener registered by initializeIPC validates the sender: a
\* message whose sender frame does not pass validateSender changes no host
\* state (store, zoom factor and the rest of the windows, exports).
C26_Step ==
    (received'.n = received.n + 1 /\ ~validateSender(received'.frame))
        => UNCHANGED <<store, windows, exports>>
C26_InvalidSenderInert == [][C26_Step]_vars

(***************************************************************************)
(* What an error reply of the dispatcher carries (SpecIPC).                *)
(***************************************************************************)
\* the texts getUserFriendlyError gives for the errors the targets throw
UserFacing ==
    {ERROR_MESSAGES[c] : c \in DOMAIN ERROR_MESSAGES}
        \cup {getUserFriendlyError(FileError(<<"FileError">>, c)) : c \in ErrorCodes}

\* the error replies sent for request rq
ErrorReplies(rq) == {rq.out[i] : i \in {j \in 1..Len(rq.out) : rq.out[j].error}}

\* C27: when a dispatched action fails, the error reply carries only the
\* short user-facing message of the error: its msg is a text of
\* getUserFriendlyError, and no raw error object (with its diagnostic
\* message and its stack) is in the reply.
C27_OnlyUserMessage ==
    \A rq \in Dispatched :
        \A r \in ErrorReplies(rq) : r.e = Null /\ r.msg \in UserFacing

(***************************************************************************)
(* SpecPaths: isOutsideAppDir applied to a path.                           *)
(***************************************************************************)
MaxPathLen == 4     \* length of the paths

PathChars == {"/", ".", "a", "b", "h"}

RECURSIVE PathsOfLength(_)
PathsOfLength(n) ==
    IF n = 0 THEN {<<>>}
    ELSE {Append(p, ch) : p \in PathsOfLength(n - 1), ch \in PathChars}

\* the paths handed to isOutsideAppDir: every string of up to MaxPathLen
\* characters, and those of the unit test's kind
PathInputs ==
    UNION {PathsOfLength(n) : n \in 1..MaxPathLen}
        \cup {HomeFile, AppFile, <<"/", "a", "/", ".", ".", "/", "h", "/", "f">>,
              <<"/", "h", "/", ".", ".", "/", "a", "/", "f">>}

InitPaths ==
    /\ now = 0
    /\ fs = InitialDisk
    /\ call = [c \in Callers |-> NoCall]
    /\ prev = [c \in Callers |-> NoCall]
    /\ nExt = 0
    /\ doc = [path |-> PluginA, data |-> XmlData, enc |-> Undefined]
    /\ todo = [c \in Callers |-> <<>>]
    /\ InitDispatcher(<<>>, 0, 0)
    /\ pluginsEnabled = FALSE
    /\ exports = <<>>
    /\ ipcListeners = [ch \in ExportChannels |-> <<>>]
    /\ limLog = <<>>
    /\ filenames = [input |-> <<>>, outs |-> <<>>]
    /\ InitHost
    /\ \E p \in PathInputs : checked = [path |-> p, done |-> FALSE, outside |-> FALSE]
    /\ InitClient

\* isOutsideAppDir(filePath)
IsOutsideAppDir ==
    /\ ~checked.done
    /\ checked' = [checked EXCEPT !.done = TRUE,
                                  !.outside = isOutsideAppDir(checked.path)]
    /\ UNCHANGED <<now, fs, call, prev, todo, nExt, doc, ipcVars, pluginsEnabled,
                   exports, ipcListeners, limLog, filenames, hostVars, clientVars>>

NextPaths == IsOutsideAppDir

SpecPaths == InitPaths /\ [][NextPaths]_vars

\* the location p resolves to, '..' segments resolved
Resolved(p) == PathResolve(PathNormalize(p))

\* the application's install directory
AppDir == PathResolve(getAppBaseDir)

\* p resolves to the install directory or to a location under it
UnderAppDir(p) == Resolved(p) = AppDir \/ StartsWith(Resolved(p), AppDir \o <<"/">>)

\* C31: isOutsideAppDir(p) is false for every path p that resolves to a
\* location under the application's install directory and true for every
\* other path, including paths in sibling directories whose name merely
\* begins with the install directory's name.
C31_OutsideIffNotUnder ==
    checked.done => (checked.outside <=> ~UnderAppDir(checked.path))

(***************************************************************************)
(* The write attempts of saveFile (Spec).                                  *)
(***************************************************************************)
\* the writes of the data to the target that call cr has made
Attempts(cr) ==
    Len(SelectSeq(cr.trace,
                  LAMBDA e : e.op = "write" /\ e.path = FsKey(cr.args.path)))

\* C33: saveFile makes at most 3 write attempts on the target: after a
\* verification mismatch it retries while fewer than 3 attempts were made,
\* and after the third mismatch it raises an error instead of retrying; the
\* count of mismatches grows with every attempt and the call is over when it
\* reaches 3, so the retry loop ends.
C33_AtMostThreeAttempts ==
    \A c \in Callers :
        LET cr == call[c]
        IN  cr.op = "saveFile" =>
              /\ Attempts(cr) <= 3
              /\ cr.pc \in {"open", "write"} =>
                    Attempts(cr) = cr.retryCount /\ cr.retryCount < 3
              /\ cr.pc = "verify" => Attempts(cr) = cr.retryCount + 1
              /\ cr.retryCount >= 3 =>
                    /\ Raised(cr, "FILE_INVALID")
                    /\ cr.retryCount = 3 /\ Attempts(cr) = 3

\* a saveFile whose read-back differed three times has failed after its
\* third attempt
C33_Witness ==
    \E c \in Callers :
        /\ call[c].op = "saveFile" /\ Raised(call[c], "FILE_INVALID")
        /\ call[c].retryCount = 3 /\ Attempts(call[c]) = 3

(***************************************************************************)
(* The page range of a PDF export (SpecExport).                            *)
(***************************************************************************)
\* the page indexes of the range of export x that the document has
PagesInRange(x) == {i \in x.args.from..x.args.to : i < x.pageCount}

\* C34: a non-print PDF export of the 0-based range from..to on a document
\* of pageCount pages accumulates exactly one buffer for each page index i
\* with from <= i <= to and i < pageCount, and never sends a render request
\* for a page index >= pageCount: every 'render' after the first asks for
\* one page the document has, and the buffers handed to mergePdfs are as
\* many as the pages of the range.
C34_PdfPageRange ==
    \A e \in ExportIds :
        LET x == exports[e]
        IN  (x.valid /\ x.args.format = "pdf" /\ ~x.args.print) =>
              /\ \A k \in 2..Len(x.renders) : x.renders[k].from < x.pageCount
              /\ (x.pc = "mergePdfs" \/ x.merged # <<>>) =>
                    Len(x.pdfs) = Cardinality(PagesInRange(x))

(***************************************************************************)
(* Exports that run at the same time (SpecExport).                         *)
(***************************************************************************)
\* this step delivers a message caused by export e: its renderer's
\* 'render-finished', 'svg-data', 'xml-data' or 'xml-data-error', or the
\* 'export-finalize' for one of its replies
CausedBy(e) ==
    \/ exports'[e].answered # exports[e].answered
    \/ exports'[e].svgSent # exports[e].svgSent
    \/ exports'[e].xmlSent # exports[e].xmlSent
    \/ exports'[e].acked # exports[e].acked

\* this step starts no capture for export f, sends no reply of it and does
\* not destroy its window
Untouched(f) ==
    /\ exports'[f].pc = exports[f].pc
    /\ exports'[f].replies = exports[f].replies
    /\ exports'[f].destroys = exports[f].destroys
    /\ exports'[f].browser = exports[f].browser

C36_Step ==
    \A e \in ExportIds : \A f \in ExportIds \ {e} :
        (Len(exports') = Len(exports) /\ CausedBy(e)) => Untouched(f)

\* C36: exports that run at the same time do not interfere: a
\* 'render-finished', 'svg-data', 'xml-data' or 'export-finalize' message
\* caused by one export never triggers a page capture, a reply or the
\* destruction of the rendering surface of another export.
C36_NoInterference == [][C36_Step]_vars

(***************************************************************************)
(* Concurrent draft saves (SpecIPC).                                       *)
(***************************************************************************)
\* cr is a saveDraft request that carried no draft name and has chosen one
ChoseDraftName(cr) ==
    /\ cr.op = "saveDraft"
    /\ cr.args.draftFileName = Undefined
    /\ cr.draftFileName # <<>>

\* C37: two saveDraft requests for the same file that are in flight together,
\* neither carrying a draft name, never write the same draft path
C37_DistinctDraftPaths ==
    \A c, d \in Callers :
        (/\ c # d
         /\ ChoseDraftName(call[c]) /\ ChoseDraftName(call[d])
         /\ call[c].args.path = call[d].args.path)
        => call[c].draftFileName # call[d].draftFileName

(***************************************************************************)
(* The migration of legacy drafts (SpecStore).                             *)
(***************************************************************************)
\* the current-format drafts beside filePath on disk f
CurrentDrafts(f, filePath) ==
    {n \in 0..MaxDrafts : ExistsSync(f, DraftPath(filePath, n))}

\* no path occurs twice in ps
NoPathTwice(ps) ==
    \A i, j \in 1..Len(ps) : ps[i] = ps[j] => i = j

\* C38: the migration of getFileDrafts loses no draft: every current-format
\* draft that was beside the file when the call started is still there with
\* its content, and the list of draft paths holds no path twice
C38_MigrationLosesNoDraft ==
    \A c \in Callers :
        LET cr == call[c]
        IN  (cr.op = "getFileDrafts" /\ ~cr.disturbed) =>
                /\ \A n \in CurrentDrafts(cr.fs0, cr.args.path) :
                      /\ ExistsSync(fs, DraftPath(cr.args.path, n))
                      /\ fs[FsKey(DraftPath(cr.args.path, n))].data
                           = cr.fs0[FsKey(DraftPath(cr.args.path, n))].data
                /\ NoPathTwice(cr.draftsPaths)

(***************************************************************************)
(* main/electron-new.js, the preload script: the bridge by which a page    *)
(* sends requests and receives their replies (SpecBridge).                 *)
(***************************************************************************)
MaxBridgeReqs == 3     \* calls of request
MaxReplies    == 3     \* 'mainResp' messages the page receives

\* the state in which the main process is idle; the page-side and
\* window-side components run on their own
InitClientOnly ==
    /\ now = 0
    /\ fs = InitialDisk
    /\ call = [c \in Callers |-> NoCall]
    /\ prev = [c \in Callers |-> NoCall]
    /\ todo = [c \in Callers |-> <<>>]
    /\ nExt = 0
    /\ doc = [path |-> HomeFile, data |-> XmlData, enc |-> Undefined]
    /\ InitDispatcher(<<>>, 0, 0)
    /\ InitServices

\* request(msg, callback, error): msg.reqId = reqId++ and
\* reqInfo[msg.reqId] = {callback, error}
request(pl) ==
    [pl EXCEPT !.reqId = @ + 1,
               !.reqInfo = @ \cup {pl.reqId},
               !.issued = Append(@, pl.reqId)]

\* ipcRenderer.on('mainResp'): nothing without an entry for resp.reqId; else
\* the error or the success callback is called, and the entry is deleted
\* once the callback has returned (not when it throws)
mainResp(pl, resp, throws) ==
    LET known == resp.reqId \in pl.reqInfo
        p1    == [pl EXCEPT !.replies = Append(@, [reqId |-> resp.reqId,
                                                   known |-> known])]
    IN  IF ~known THEN p1
        ELSE LET p2 == [p1 EXCEPT !.invoked =
                          Append(@, [reqId |-> resp.reqId,
                                     fn |-> IF resp.error THEN "error"
                                            ELSE "callback"])]
             IN  IF throws THEN p2
                 ELSE [p2 EXCEPT !.reqInfo = @ \ {resp.reqId}]

BridgeRequest ==
    /\ Len(preload.issued) < MaxBridgeReqs
    /\ preload' = request(preload)
    /\ UNCHANGED <<now, fs, call, prev, todo, nExt, doc, ipcVars, pluginsEnabled,
                   exports, ipcListeners, limLog, filenames, hostVars, checked,
                   wm, watch>>

\* a 'mainResp' arrives, with any id; the callback it reaches returns or throws
BridgeMainResp ==
    /\ Len(preload.replies) < MaxReplies
    /\ \E id \in 0..(MaxBridgeReqs + 1), err \in BOOLEAN, throws \in BOOLEAN :
          preload' = mainResp(preload, [reqId |-> id, error |-> err], throws)
    /\ UNCHANGED <<now, fs, call, prev, todo, nExt, doc, ipcVars, pluginsEnabled,
                   exports, ipcListeners, limLog, filenames, hostVars, checked,
                   wm, watch>>

NextBridge == BridgeRequest \/ BridgeMainResp

SpecBridge == InitClientOnly /\ [][NextBridge]_vars

\* C39: the request ids the bridge gives out are strictly increasing; for
\* each request at most one of its two callbacks is invoked, at most once;
\* the pending entry is gone once a reply with its id has arrived; and a reply
\* whose id has no pending entry invokes nothing
C39_BridgeOnce ==
    /\ \A i, j \in 1..Len(preload.issued) :
          i < j => preload.issued[i] < preload.issued[j]
    /\ \A i, j \in 1..Len(preload.invoked) :
          preload.invoked[i].reqId = preload.invoked[j].reqId => i = j
    /\ \A k \in 1..Len(preload.replies) :
          preload.replies[k].known => preload.replies[k].reqId \notin preload.reqInfo
    /\ Len(preload.invoked)
         = Len(SelectSeq(preload.replies, LAMBDA r : r.known))

(***************************************************************************)
(* ipc/handlers.js, the window manager: the registry of the application's  *)
(* windows (SpecWindows).                                                  *)
(***************************************************************************)
MaxWindows == 3     \* windows created in all, the first one included

\* windowsRegistry.indexOf(w), counted from 1; 0 stands for -1
IndexOf(reg, w) ==
    IF \E i \in 1..Len(reg) : reg[i] = w
    THEN CHOOSE i \in 1..Len(reg) : reg[i] = w /\ \A j \in 1..(i - 1) : reg[j] # w
    ELSE 0

\* windowsRegistry.splice(index, 1); index -1 removes the last element
Splice1(reg, i) ==
    LET k == IF i = 0 THEN Len(reg) ELSE i
    IN  IF reg = <<>> THEN reg
        ELSE [j \in 1..(Len(reg) - 1) |-> IF j < k THEN reg[j] ELSE reg[j + 1]]

\* createWindow: new BrowserWindow, windowsRegistry.push(mainWindow) and
\* setupWindowEvents, which listens to 'closed'
createWindow(m, w) ==
    [m EXCEPT !.windowsRegistry = Append(@, w),
              !.open = @ \cup {w},
              !.listening = @ \cup {w}]

\* window w is destroyed and emits 'closed': its listener, if it still has
\* one, removes it from the registry
closed(m, w) ==
    LET m1 == [m EXCEPT !.open = @ \ {w}, !.closed = @ \cup {w},
                        !.listening = @ \ {w}]
    IN  IF w \in m.listening
        THEN [m1 EXCEPT !.windowsRegistry = Splice1(@, IndexOf(@, w))]
        ELSE m1

\* removeAllListeners(): win.removeAllListeners() on the focused window
removeAllListeners(m, win) ==
    IF win = 0 THEN m ELSE [m EXCEPT !.listening = @ \ {win}]

CreateWindow ==
    /\ Cardinality(wm.open \cup wm.closed) < MaxWindows
    /\ wm' = createWindow(wm, Cardinality(wm.open \cup wm.closed) + 1)
    /\ UNCHANGED <<now, fs, call, prev, todo, nExt, doc, ipcVars, pluginsEnabled,
                   exports, ipcListeners, limLog, filenames, hostVars, checked,
                   preload, watch>>

\* window w closes; the focus leaves it
WindowClosed(w) ==
    /\ w \in wm.open
    /\ wm' = closed(wm, w)
    /\ focused' = IF focused = w THEN 0 ELSE focused
    /\ UNCHANGED <<now, fs, call, prev, todo, nExt, doc, ipcVars, pluginsEnabled,
                   exports, ipcListeners, limLog, filenames, dialogOpen, clipboard,
                   store, windows, received, rendererMsgs, checked, preload, watch>>

\* a windowAction request with method 'removeAllListeners'
RemoveAllListeners ==
    /\ focused \in wm.listening
    /\ wm' = removeAllListeners(wm, focused)
    /\ UNCHANGED <<now, fs, call, prev, todo, nExt, doc, ipcVars, pluginsEnabled,
                   exports, ipcListeners, limLog, filenames, hostVars, checked,
                   preload, watch>>

NextWindows ==
    \/ CreateWindow
    \/ \E w \in 1..MaxWindows : WindowClosed(w)
    \/ RemoveAllListeners
    \/ \E w \in wm.open \cup {0} : Focus(w)

SpecWindows == InitClientOnly /\ [][NextWindows]_vars

\* C35: the window registry holds exactly the windows that createWindow
\* created and that have not closed, each of them once
C35_RegistryIsOpenWindows ==
    /\ {wm.windowsRegistry[i] : i \in 1..Len(wm.windowsRegistry)} = wm.open
    /\ \A i, j \in 1..Len(wm.windowsRegistry) :
          wm.windowsRegistry[i] = wm.windowsRegistry[j] => i = j

(***************************************************************************)
(* ipc/handlers.js, watchFile and unwatchFile: the file watches of the     *)
(* windows (SpecWatch).                                                    *)
(***************************************************************************)
MaxWatchSteps == 4     \* watch requests, unwatch requests and file changes

WatchPaths == {HomeFile, EmptyFile}

\* watchFile(filePath) on the watches: nothing without a focused window;
\* else fs.watchFile adds a listener that sends to the focused window win
watchFileListen(wt, filePath, win) ==
    IF win = 0 THEN wt
    ELSE [wt EXCEPT !.listeners = Append(@, [path |-> FsKey(filePath), win |-> win])]

\* unwatchFile(filePath): fs.unwatchFile(filePath) with no listener removes
\* every listener of the file
unwatchFile(wt, filePath) ==
    [wt EXCEPT !.listeners = SelectSeq(@, LAMBDA l : l.path # FsKey(filePath))]

\* the file changes: each of its listeners sends 'fileChanged' with the path
\* to its window
fileChanged(wt, filePath) ==
    LET ls == SelectSeq(wt.listeners, LAMBDA l : l.path = FsKey(filePath))
    IN  [wt EXCEPT !.last = [path |-> FsKey(filePath),
                             to |-> [i \in 1..Len(ls) |-> ls[i].win]],
                   !.changes = @ + 1]

\* window w requests watchFile(p)
WatchRequest(w, p) ==
    /\ watch.n < MaxWatchSteps
    /\ watch' = [watchFileListen(watch, p, focused)
                    EXCEPT !.asked = @ \cup {<<w, FsKey(p)>>},
                           !.stale = @ \ {<<w, FsKey(p)>>},
                           !.n = @ + 1]
    /\ UNCHANGED <<now, fs, call, prev, todo, nExt, doc, ipcVars, pluginsEnabled,
                   exports, ipcListeners, limLog, filenames, hostVars, checked,
                   preload, wm>>

\* window w requests unwatchFile(p)
UnwatchRequest(w, p) ==
    /\ watch.n < MaxWatchSteps
    /\ watch' = [unwatchFile(watch, p)
                    EXCEPT !.asked = @ \ {<<w, FsKey(p)>>},
                           !.stale = @ \cup {<<w, FsKey(p)>>},
                           !.n = @ + 1]
    /\ UNCHANGED <<now, fs, call, prev, todo, nExt, doc, ipcVars, pluginsEnabled,
                   exports, ipcListeners, limLog, filenames, hostVars, checked,
                   preload, wm>>

\* file p changes on disk
FileChange(p) ==
    /\ watch.n < MaxWatchSteps
    /\ watch' = [fileChanged(watch, p) EXCEPT !.n = @ + 1]
    /\ UNCHANGED <<now, fs, call, prev, todo, nExt, doc, ipcVars, pluginsEnabled,
                   exports, ipcListeners, limLog, filenames, hostVars, checked,
                   preload, wm>>

NextWatch ==
    \/ \E w \in Windows, p \in WatchPaths :
          \/ WatchRequest(w, p)
          \/ UnwatchRequest(w, p)
    \/ \E p \in WatchPaths : FileChange(p)
    \/ \E w \in Windows \cup {0} : Focus(w)

SpecWatch == InitClientOnly /\ [][NextWatch]_vars

\* the windows the last change was pushed to
PushedTo(wt) == {wt.last.to[i] : i \in 1..Len(wt.last.to)}

C32_Step ==
    watch'.changes # watch.changes =>
        \A w \in Windows :
            /\ <<w, watch'.last.path>> \in watch.asked => w \in PushedTo(watch')
            /\ <<w, watch'.last.path>> \in watch.stale => w \notin PushedTo(watch')

\* C32: a change of a file is pushed to every window that asked to watch the
\* file and has not given the watch up, and to no window that has given it up
C32_WatchersArePushed == [][C32_Step]_vars

=============================================================================
